---- MODULE Spec2Model ----
(***************************************************************************)
(* Rule-based decision engine of the chart simulator: structure detectors, *)
(* rule registry, decideTrade, simulateFuture and pickOptionsContract, in  *)
(* the three variants the repository holds:                                *)
(*   "base"  src/core.js              (two built-in rules, input guard)    *)
(*   "adv"   src/unnamed/part_004 with the five rules of part_005          *)
(*   "sim"   src/unnamed/part_007     (single-file engine, try/catch)      *)
(*                                                                         *)
(* Numbers are fixed-point integers in thousandths (1.0 is 1000), and the  *)
(* arithmetic is exact: comparisons that the code does in binary floating  *)
(* point are done on the exact products.  A JavaScript value is a record   *)
(* [t |-> type tag, v |-> integer]:                                        *)
(*   "num"   a finite number, v thousandths                                *)
(*   "str"   the string Number.prototype.toFixed(2) makes of a number      *)
(*   "empty" the empty string                                              *)
(*   "null", "undef", "nan", and "bool" with v in {0, 1}.                  *)
(***************************************************************************)
EXTENDS Integers, Sequences, FiniteSets, TLC

VARIABLES
    engine,     \* which variant of core.js is loaded
    rules,      \* the registry: `const rules = []`, in registration order
    pc,         \* "idle", or the operation whose result is held
    data,       \* ChartSnapshot argument of the running/last call
    ctx,        \* context.history argument of the running/last call
    outcome,    \* "none", "returned" or "threw"
    decision,   \* Decision returned by decideTrade / passed to the consumers
    invoked,    \* names of the rules whose check ran in the last decideTrade
    daysArg,    \* daysToExpiry argument of the last pickOptionsContract
    plan,       \* OptionsPlan returned by pickOptionsContract
    chain,      \* strikes the options page lists around the entry
    sim,        \* progress of simulateFuture: candles pushed so far
    probe,      \* an earlier decideTrade call kept for comparison
    detected,   \* {isFlag, notes} returned by the last detectBullFlag call
    signals,    \* what the history detectors returned on the history at hand
    proximity,  \* what the last detectEvenProximity call returned
    ocr,        \* the running ocrCanvasWithRetries call
    page        \* the simulator page: processFile runs and localStorage

vars ==
    <<engine, rules, pc, data, ctx, daysArg, outcome, decision, invoked, plan, chain,
      sim, probe, detected, signals, proximity, ocr, page>>

----------------------------------------------------------------------------
(* JavaScript values *)

Num(x)   == [t |-> "num", v |-> x]
Str(x)   == [t |-> "str", v |-> x]
Bool(b)  == [t |-> "bool", v |-> IF b THEN 1 ELSE 0]
Null     == [t |-> "null", v |-> 0]
Undef    == [t |-> "undef", v |-> 0]
NaN      == [t |-> "nan", v |-> 0]
EmptyStr == [t |-> "empty", v |-> 0]

\* Number(x): null and "" become 0, undefined becomes NaN, a numeric string
\* its value.  Only called where the result is a number (IsNaN excluded).
ToNum(x) == IF x.t \in {"num", "str", "bool"} THEN x.v ELSE 0

\* isNaN(x)
IsNaN(x) == x.t \in {"undef", "nan"}

\* x == null
IsNullish(x) == x.t \in {"null", "undef"}

\* the test without its isNaN half
MissingNullOnly(x) == IsNullish(x)

\* the test `v == null || isNaN(v)` of the detectors and rules
Missing(x) == IsNullish(x) \/ IsNaN(x)

\* ToBoolean(x): 0, NaN, null, undefined, "" and false are falsy
Truthy(x) ==
    CASE x.t = "num"  -> x.v # 0
      [] x.t = "str"  -> TRUE
      [] x.t = "bool" -> x.v = 1
      [] OTHER        -> FALSE

Abs(x) == IF x < 0 THEN -x ELSE x
Max2(a, b) == IF a >= b THEN a ELSE b
Min2(a, b) == IF a <= b THEN a ELSE b

\* floor and ceiling of n/d for d > 0
FloorDiv(n, d) == n \div d
CeilDiv(n, d) == -((-n) \div d)

\* Math.round(n/d): the nearest integer, halves towards +infinity
MathRound(n, d) == (2 * n + d) \div (2 * d)

\* (n/d).toFixed(2) for a value of n/d thousandths: the nearest hundredth,
\* halves away from zero, as thousandths
ToFixed2(n, d) ==
    IF n >= 0 THEN 10 * ((2 * n + 10 * d) \div (20 * d))
    ELSE -(10 * ((2 * (-n) + 10 * d) \div (20 * d)))

----------------------------------------------------------------------------
(* Basic helpers *)

\* rounding down where nextEvenUp rounds up
nextEvenUpFloor(price) == FloorDiv(price, 5000) * 5000

\* Math.ceil(price / 5) * 5
nextEvenUp(price) == CeilDiv(price, 5000) * 5000
nextEvenDown(p) == FloorDiv(p, 5000) * 5000

\* dynamicStep of the single-file engine: the strike/grid step by price band
dynamicStep(price) ==
    IF price <= 500 THEN 10
    ELSE IF price <= 5000 THEN 50
    ELSE IF price <= 20000 THEN 100
    ELSE IF price <= 100000 THEN 500
    ELSE IF price <= 300000 THEN 1000
    ELSE IF price <= 1000000 THEN 5000
    ELSE 10000

\* String(x) of a number of x thousandths, as a template literal prints it:
\* no trailing zeros, no decimal point on an integer
Digits3(f) ==
    IF f % 100 = 0 THEN ToString(f \div 100)
    ELSE IF f % 10 = 0 THEN
        (IF f < 100 THEN "0" ELSE "") \o ToString(f \div 10)
    ELSE (IF f < 10 THEN "00" ELSE IF f < 100 THEN "0" ELSE "") \o ToString(f)

FmtNum(x) ==
    LET a == Abs(x)
        whole == ToString(a \div 1000)
        frac == a % 1000
    IN  (IF x < 0 THEN "-" ELSE "") \o whole \o
        (IF frac = 0 THEN "" ELSE "." \o Digits3(frac))

----------------------------------------------------------------------------
(* Structure detectors *)

\* The notes of detectBullFlag: src/core.js words two of them differently
\* from part_004 and part_007.  (The arrow of the source is written ->.)
FlagNote(eng, k) ==
    CASE k = 1 -> "Price is holding in the upper part of today's range."
      [] k = 2 -> "Price is above both fast and slow moving averages."
      [] k = 3 -> IF eng = "base"
                  THEN "Fast and slow MAs are almost on top of each other -> tight flag."
                  ELSE "Fast and slow MAs are tight -> consolidation."
      [] k = 4 -> "20 / 50 / 200 MAs are clustered -> strong trend."
      [] OTHER -> IF eng = "base"
                  THEN "This matches your golden bullish flag continuation pattern."
                  ELSE "Bullish flag golden play detected."

\* the range position measured down from the day high
lowInRangeFromHigh(price, dayHigh, dayLow) ==
    10 * (dayHigh - price) < 6 * (dayHigh - dayLow)

\* pos < 0.6 with range = dayHigh - dayLow > 0 and pos = (price - dayLow) / range
lowInRange(price, dayHigh, dayLow) ==
    10 * (price - dayLow) < 6 * (dayHigh - dayLow)

detectBullFlag(eng, d) ==
    IF \E x \in {d.price, d.dayHigh, d.dayLow, d.maFast, d.maSlow} : Missing(x)
    THEN [isFlag |-> FALSE, notes |-> <<>>]
    ELSE
      LET price == ToNum(d.price)
          dayHigh == ToNum(d.dayHigh)
          dayLow == ToNum(d.dayLow)
          maFast == ToNum(d.maFast)
          maSlow == ToNum(d.maSlow)
          m200 == ToNum(d.ma200)         \* Math.max coerces null to 0
          range == dayHigh - dayLow
          diffFS == Abs(maFast - maSlow)
          maxMA == Max2(Max2(maFast, maSlow), m200)
          minMA == Min2(Min2(maFast, maSlow), m200)
          n1 == <<FlagNote(eng, 1)>>
          n2 == n1 \o <<FlagNote(eng, 2)>>
          n3 == n2 \o <<FlagNote(eng, 3)>>
          n4 == IF ~IsNaN(d.ma200) THEN n3 \o <<FlagNote(eng, 4)>> ELSE n3
      IN  IF range <= 0 THEN [isFlag |-> FALSE, notes |-> <<>>]
          ELSE IF lowInRange(price, dayHigh, dayLow)
               THEN [isFlag |-> FALSE, notes |-> <<>>]
          ELSE IF ~(price > maFast /\ price > maSlow)
               THEN [isFlag |-> FALSE, notes |-> n1]
          \* diffFS > price * 0.01
          ELSE IF 100 * diffFS > price
               THEN [isFlag |-> FALSE, notes |-> n2]
          \* (maxMA - minMA) > price * 0.02
          ELSE IF ~IsNaN(d.ma200) /\ 50 * (maxMA - minMA) > price
               THEN [isFlag |-> FALSE, notes |-> n3]
          ELSE [isFlag |-> TRUE, notes |-> n4 \o <<FlagNote(eng, 5)>>]

\* the step with the first band ending at 10 and not at 20
evenStepFrom10(eng, price) ==
    IF eng = "sim" THEN dynamicStep(price)
    ELSE IF price > 1000000 THEN 10000
    ELSE IF price > 300000 THEN 5000
    ELSE IF price > 100000 THEN 1000
    ELSE IF price > 10000 THEN 500
    ELSE 50

\* part_004: the rounding step by price band; part_007 takes dynamicStep
evenStep(eng, price) ==
    IF eng = "sim" THEN dynamicStep(price)
    ELSE IF price > 1000000 THEN 10000
    ELSE IF price > 300000 THEN 5000
    ELSE IF price > 100000 THEN 1000
    ELSE IF price > 20000 THEN 500
    ELSE 50

\* detectEvenProximity: present = FALSE is the null result
detectEvenProximity(eng, p) ==
    IF (IF eng = "sim" THEN ~Truthy(p) /\ p # Num(0) ELSE ~Truthy(p))
    THEN [present |-> FALSE, nearest |-> 0, diff |-> 0, isNear |-> FALSE,
          isJustAbove |-> FALSE, isJustBelow |-> FALSE]
    ELSE
      LET price == ToNum(p)
          step == evenStep(eng, price)
          nearest == MathRound(price, step) * step
          diff == price - nearest
          near == 5 * Abs(diff) <= step      \* |diff| <= step * 0.2
      IN  [present |-> TRUE, nearest |-> nearest, diff |-> diff,
           isNear |-> near,
           isJustAbove |-> diff > 0 /\ near,
           isJustBelow |-> diff < 0 /\ near]

\* detectMACluster
detectMACluster(d) ==
    LET arr == {ToNum(x) : x \in {y \in {d.maFast, d.maSlow, d.ma200} : ~Missing(y)}}
        cnt == Cardinality({k \in {"maFast", "maSlow", "ma200"} : ~Missing(d[k])})
    IN  IF cnt < 2 \/ ~Truthy(d.price) THEN [clustered |-> FALSE, spread |-> 0]
        ELSE
          LET max == CHOOSE a \in arr : \A b \in arr : a >= b
              min == CHOOSE a \in arr : \A b \in arr : a <= b
              spread == max - min
          \* spread <= price * 0.015
          IN  [clustered |-> 200 * spread <= 3 * ToNum(d.price), spread |-> spread]

\* prices of the history points that carry one: history.map(c => c.price)
\* .filter(p => p != null)
RECURSIVE pricesOf(_)
pricesOf(h) ==
    IF h = <<>> THEN <<>>
    ELSE IF IsNullish(Head(h)) THEN pricesOf(Tail(h))
    ELSE <<ToNum(Head(h))>> \o pricesOf(Tail(h))

SeqMax(s) == CHOOSE a \in {s[i] : i \in DOMAIN s} : \A j \in DOMAIN s : a >= s[j]
SeqMin(s) == CHOOSE a \in {s[i] : i \in DOMAIN s} : \A j \in DOMAIN s : a <= s[j]

\* the sum of the first n elements of s
RECURSIVE SumTo(_, _)
SumTo(s, n) == IF n = 0 THEN 0 ELSE s[n] + SumTo(s, n - 1)

\* prices.reduce((a, b) => a + b, 0)
SeqSum(s) == SumTo(s, Len(s))

\* detectMASlope(history).  The points of the histories here carry a price
\* only, so maFast ?? 0 and maSlow ?? 0 are 0 at every point; present =
\* FALSE is the null result.
detectMASlope(h) ==
    IF ~h.present \/ Len(h.pts) < 3
    THEN [present |-> FALSE, slopeFast |-> 0, slopeSlow |-> 0, slopePrice |-> 0,
          priceUp |-> FALSE, priceDown |-> FALSE, sharpMove |-> FALSE]
    ELSE
      LET last == h.pts[Len(h.pts)]
          prev == h.pts[Len(h.pts) - 1]
          lastPrice == IF IsNullish(last) THEN 0 ELSE ToNum(last)
          prevPrice == IF IsNullish(prev) THEN 0 ELSE ToNum(prev)
          slopePrice == lastPrice - prevPrice
      IN  [present |-> TRUE, slopeFast |-> 0, slopeSlow |-> 0, slopePrice |-> slopePrice,
           priceUp |-> slopePrice > 0, priceDown |-> slopePrice < 0,
           sharpMove |-> 100 * Abs(slopePrice) > lastPrice]

\* detectSupportResistance(history), tolerance = 0.2: the levels hit three
\* times or more, as the set of {level, hits}; supports and resistances are
\* the same list
detectSupportResistance(h) ==
    IF ~h.present \/ Len(h.pts) = 0 THEN [supports |-> {}, resistances |-> {}]
    ELSE
      LET priced == {i \in DOMAIN h.pts : ~Missing(h.pts[i])}
          key(i) == MathRound(ToNum(h.pts[i]), 200) * 200
          hits(k) == Cardinality({i \in priced : key(i) = k})
          strong == {[level |-> key(i), hits |-> hits(key(i))] :
                       i \in {j \in priced : hits(key(j)) >= 3}}
      IN  [supports |-> strong, resistances |-> strong]

\* a pattern that one hit makes
enoughHitsOne(hits) == hits >= 1

\* topHits >= 2, bottomHits >= 2
enoughHits(hits) == hits >= 2

\* detectDoubleTopBottom(history) of part_004, tolerance = 0.3, without the
\* max and min fields of the result, which no rule reads.
\* A history is [present |-> BOOLEAN, pts |-> sequence of prices].
detectDoubleTopBottom(h) ==
    IF ~h.present \/ Len(h.pts) < 5 THEN [doubleTop |-> FALSE, doubleBottom |-> FALSE]
    ELSE
      LET prices == pricesOf(h.pts)
      IN  IF Len(prices) < 5 THEN [doubleTop |-> FALSE, doubleBottom |-> FALSE]
          ELSE
            LET max == SeqMax(prices)
                min == SeqMin(prices)
                topHits == Cardinality({i \in DOMAIN prices : Abs(prices[i] - max) <= 300})
                bottomHits == Cardinality({i \in DOMAIN prices : Abs(prices[i] - min) <= 300})
            IN  [doubleTop |-> enoughHits(topHits), doubleBottom |-> enoughHits(bottomHits)]

\* the tolerance of part_007 as the fraction <<numerator, denominator>>:
\* avgPrice * (toleranceFactor / 100) || 0.3, toleranceFactor = 0.3
simTolerance(prices) ==
    LET sum == SeqSum(prices)
    IN  IF sum # 0 THEN <<3 * sum, 1000 * Len(prices)>> ELSE <<300, 1>>

\* detectDoubleTopBottom(history) of part_007, without max and min
detectDoubleTopBottomSim(h) ==
    IF ~h.present \/ Len(h.pts) < 5 THEN [doubleTop |-> FALSE, doubleBottom |-> FALSE]
    ELSE
      LET prices == pricesOf(h.pts)
      IN  IF Len(prices) < 5 THEN [doubleTop |-> FALSE, doubleBottom |-> FALSE]
          ELSE
            LET max == SeqMax(prices)
                min == SeqMin(prices)
                tolerance == simTolerance(prices)
                topHits == Cardinality({i \in DOMAIN prices :
                              Abs(prices[i] - max) * tolerance[2] <= tolerance[1]})
                bottomHits == Cardinality({i \in DOMAIN prices :
                              Abs(prices[i] - min) * tolerance[2] <= tolerance[1]})
            IN  [doubleTop |-> enoughHits(topHits), doubleBottom |-> enoughHits(bottomHits)]

\* detectRounding asking for three points only
detectRoundingFrom3(h) ==
    IF ~h.present \/ Len(h.pts) < 3 THEN [roundingBottom |-> FALSE, roundingTop |-> FALSE]
    ELSE
      LET prices == pricesOf(h.pts)
      IN  IF Len(prices) < 3 THEN [roundingBottom |-> FALSE, roundingTop |-> FALSE]
          ELSE
            LET mid == Len(prices) \div 2
                left == prices[1]
                center == prices[mid + 1]
                right == prices[Len(prices)]
            IN  [roundingBottom |-> center < left /\ center < right,
                 roundingTop |-> center > left /\ center > right]

\* detectRounding(history)
detectRounding(h) ==
    IF ~h.present \/ Len(h.pts) < 10 THEN [roundingBottom |-> FALSE, roundingTop |-> FALSE]
    ELSE
      LET prices == pricesOf(h.pts)
      IN  IF Len(prices) < 10 THEN [roundingBottom |-> FALSE, roundingTop |-> FALSE]
          ELSE
            LET mid == Len(prices) \div 2
                left == prices[1]
                center == prices[mid + 1]
                right == prices[Len(prices)]
            IN  [roundingBottom |-> center < left /\ center < right,
                 roundingTop |-> center > left /\ center > right]

----------------------------------------------------------------------------
(* Rules.  A check returns [res, notes, threw]: res is the proposal, or   *)
(* Nothing for null; notes is the notes array after the call.             *)

Nothing ==
    [fired |-> FALSE, direction |-> "", entry |-> Undef, stop |-> Undef,
     target |-> Undef, wait |-> Undef]

Proposal(dir, entry, stop, target, wait) ==
    [fired |-> TRUE, direction |-> dir, entry |-> entry, stop |-> stop,
     target |-> target, wait |-> wait]

NoRes(notes) == [res |-> Nothing, notes |-> notes, threw |-> FALSE]
Res(p, notes) == [res |-> p, notes |-> notes, threw |-> FALSE]

\* range = (dayHigh && dayLow) ? (dayHigh - dayLow) : price * 0.03,
\* as the fraction <<numerator, denominator>>
dayRange(d) ==
    IF Truthy(d.dayHigh) /\ Truthy(d.dayLow)
    THEN <<ToNum(d.dayHigh) - ToNum(d.dayLow), 1>>
    ELSE <<3 * ToNum(d.price), 100>>

\* core.js, rule 1: Bullish Flag Golden Play
baseFlagCheck(d, notes) ==
    LET flag == detectBullFlag("base", d)
    IN  IF ~flag.isFlag THEN NoRes(notes)
        ELSE
          LET price == ToNum(d.price)
              entry == nextEvenUp(price)
              r == dayRange(d)
              \* dayHigh + range * 0.5, as the fraction tn / td
              tn == 2 * r[2] * ToNum(d.dayHigh) + r[1]
              td == 2 * r[2]
              target == IF tn # 0 THEN ToFixed2(tn, td) ELSE ToFixed2(103 * price, 100)
              wait == 50 * price > 51 * entry        \* price > entry * 1.02
              n1 == notes \o flag.notes \o
                    <<"FLAG DETECTED -> GOLDEN PLAY continuation setup.">>
              n2 == IF wait
                    THEN n1 \o <<"Price is already stretched above the clean entry -> better to wait for a pullback.">>
                    ELSE n1
          IN  Res(Proposal("call", Num(entry), Str(ToFixed2(8 * entry, 10)),
                           Str(target), Bool(wait)), n2)

\* core.js, rule 2: Basic MA Trend
baseTrendCheck(d, notes) ==
    IF \E x \in {d.price, d.maFast, d.maSlow} : Missing(x)
    THEN NoRes(notes \o <<"Trend rule skipped: missing price or MAs.">>)
    ELSE
      LET price == ToNum(d.price)
          maFast == ToNum(d.maFast)
          maSlow == ToNum(d.maSlow)
          m200 == ToNum(d.ma200)
          isCall == maFast > maSlow /\ price > maFast
          isPut == maFast < maSlow /\ price < maFast
          r == dayRange(d)
          n1 == notes \o
                (IF isCall THEN <<"Fast MA above slow MA and price above both -> up move.">>
                 ELSE <<"Fast MA below slow MA and price below both -> down move.">>)
          n2 == n1 \o
                (IF ~IsNaN(d.ma200) /\ maFast > maSlow /\ maFast > m200
                 THEN <<"Golden cross style uptrend.">> ELSE <<>>) \o
                (IF ~IsNaN(d.ma200) /\ maFast < maSlow /\ maFast < m200
                 THEN <<"Death cross style downtrend.">> ELSE <<>>)
      IN  IF ~isCall /\ ~isPut
          THEN NoRes(notes \o <<"Trend rule: moving averages do not clearly show up or down.">>)
          ELSE IF isCall
          THEN LET entry == nextEvenUp(price)
                   wait == 50 * price > 51 * entry        \* price > entry * 1.02
               IN  Res(Proposal("call", Num(entry), Str(ToFixed2(8 * entry, 10)),
                                Str(ToFixed2(r[2] * price + r[1], r[2])), Bool(wait)),
                       IF wait
                       THEN n2 \o <<"Price is already stretched above the clean entry -> better to wait for a pullback.">>
                       ELSE n2)
          ELSE LET entry == nextEvenDown(price)
                   wait == 50 * price < 49 * entry        \* price < entry * 0.98
               IN  Res(Proposal("put", Num(entry), Str(ToFixed2(12 * entry, 10)),
                                Str(ToFixed2(r[2] * price - r[1], r[2])), Bool(wait)),
                       IF wait
                       THEN n2 \o <<"Price is already stretched below the clean entry -> better to wait for a bounce.">>
                       ELSE n2)

\* part_005 (rules.js), rule 1: Bullish Flag Golden Play
advFlagCheck(d, notes) ==
    LET flag == detectBullFlag("adv", d)
    IN  IF ~flag.isFlag THEN NoRes(notes)
        ELSE
          LET price == ToNum(d.price)
              even == detectEvenProximity("adv", d.price)
              cluster == detectMACluster(d)
              entry == nextEvenUp(price)
              r == dayRange(d)
              n1 == notes \o flag.notes \o
                    (IF even.present /\ even.isJustBelow
                     THEN <<"Price is just below key even level " \o FmtNum(even.nearest)
                            \o " -> breakout fuel.">>
                     ELSE <<>>) \o
                    (IF cluster.clustered
                     THEN <<"MAs are tightly clustered -> strong consolidation before move.">>
                     ELSE <<>>)
          IN  Res(Proposal("call", Num(entry), Str(ToFixed2(8 * entry, 10)),
                           Str(ToFixed2(2 * r[2] * ToNum(d.dayHigh) + r[1], 2 * r[2])),
                           Bool(50 * price > 51 * entry)), n1)

\* part_005, rule 2: Basic MA Trend
advTrendCheck(d, notes) ==
    IF \E x \in {d.price, d.maFast, d.maSlow} : Missing(x) THEN NoRes(notes)
    ELSE
      LET price == ToNum(d.price)
          maFast == ToNum(d.maFast)
          maSlow == ToNum(d.maSlow)
          isCall == maFast > maSlow /\ price > maFast
          isPut == maFast < maSlow /\ price < maFast
          even == detectEvenProximity("adv", d.price)
          cluster == detectMACluster(d)
          r == dayRange(d)
          n1 == notes \o
                (IF isCall THEN <<"Fast MA above slow MA and price above fast MA -> uptrend.">>
                 ELSE <<>>) \o
                (IF isPut THEN <<"Fast MA below slow MA and price below fast MA -> downtrend.">>
                 ELSE <<>>)
          n2 == n1 \o
                (IF even.present /\ even.isNear
                 THEN <<"Price is near even level " \o FmtNum(even.nearest)
                        \o " -> psychological level in play.">>
                 ELSE <<>>) \o
                (IF cluster.clustered
                 THEN <<"MAs are clustered -> consolidation inside trend.">>
                 ELSE <<>>)
      IN  IF ~isCall /\ ~isPut THEN NoRes(n1)
          ELSE IF ~isPut
          THEN LET entry == nextEvenUp(price)
               IN  Res(Proposal("call", Num(entry), Str(ToFixed2(8 * entry, 10)),
                                Str(ToFixed2(r[2] * price + r[1], r[2])),
                                Bool(50 * price > 51 * entry)), n2)
          ELSE LET entry == nextEvenDown(price)
               IN  Res(Proposal("put", Num(entry), Str(ToFixed2(12 * entry, 10)),
                                Str(ToFixed2(r[2] * price - r[1], r[2])),
                                Bool(50 * price < 49 * entry)), n2)

\* part_005, rule 3: Even Number Breakout + MA Cluster
advEvenCheck(d, notes) ==
    IF ~Truthy(d.price) THEN NoRes(notes)
    ELSE
      LET even == detectEvenProximity("adv", d.price)
          cluster == detectMACluster(d)
          entry == even.nearest + 50
          r == dayRange(d)
      IN  IF ~even.present \/ ~even.isJustBelow THEN NoRes(notes)
          ELSE IF ~cluster.clustered THEN NoRes(notes)
          ELSE Res(Proposal("call", Num(entry), Str(ToFixed2(8 * entry, 10)),
                            Str(ToFixed2(r[2] * entry + r[1], r[2])), Bool(FALSE)),
                   notes \o
                   <<"Price is sitting just below even level " \o FmtNum(even.nearest) \o ".",
                     "MAs are tightly clustered -> coiled spring setup.">>)

\* part_005, rule 4: Double Top / Bottom Reversal
advDoubleCheck(d, notes, h) ==
    IF ~h.present \/ Len(h.pts) < 5 THEN NoRes(notes)
    ELSE
      LET pattern == detectDoubleTopBottom(h)
          price == ToNum(d.price)
      IN  IF ~Truthy(d.price) THEN NoRes(notes)
          ELSE IF pattern.doubleTop
          THEN LET entry == nextEvenDown(price)
               IN  Res(Proposal("put", Num(entry), Str(ToFixed2(12 * entry, 10)),
                                Str(ToFixed2(97 * price, 100)), Bool(FALSE)),
                       notes \o <<"Double top detected near recent highs -> potential reversal down.">>)
          ELSE IF pattern.doubleBottom
          THEN LET entry == nextEvenUp(price)
               IN  Res(Proposal("call", Num(entry), Str(ToFixed2(8 * entry, 10)),
                                Str(ToFixed2(103 * price, 100)), Bool(FALSE)),
                       notes \o <<"Double bottom detected near recent lows -> potential reversal up.">>)
          ELSE NoRes(notes)

\* part_005, rule 5: Rounding Bottom / Top Swing
advRoundingCheck(d, notes, h) ==
    IF ~h.present \/ Len(h.pts) < 10 THEN NoRes(notes)
    ELSE
      LET rounding == detectRounding(h)
          price == ToNum(d.price)
      IN  IF ~Truthy(d.price) THEN NoRes(notes)
          ELSE IF rounding.roundingBottom
          THEN LET entry == nextEvenUp(price)
               IN  Res(Proposal("call", Num(entry), Str(ToFixed2(85 * entry, 100)),
                                Str(ToFixed2(105 * price, 100)), Bool(FALSE)),
                       notes \o <<"Rounding bottom pattern detected -> accumulation then push higher.">>)
          ELSE IF rounding.roundingTop
          THEN LET entry == nextEvenDown(price)
               IN  Res(Proposal("put", Num(entry), Str(ToFixed2(115 * entry, 100)),
                                Str(ToFixed2(95 * price, 100)), Bool(FALSE)),
                       notes \o <<"Rounding top pattern detected -> distribution then drop.">>)
          ELSE NoRes(notes)

\* part_007, rule bull-flag-entry
simFlagCheck(d, notes) ==
    LET flag == detectBullFlag("sim", d)
    IN  IF ~flag.isFlag THEN NoRes(notes)
        ELSE
          LET price == ToNum(d.price)
              step == dynamicStep(price)
              entry == ToFixed2(2 * price - step, 2)
              stop == ToFixed2(ToNum(d.dayLow) - step, 1)
              target == ToFixed2(price + ToNum(d.dayHigh) - ToNum(d.dayLow), 1)
          IN  Res(Proposal("call", Num(entry), Num(stop), Num(target),
                           Bool(2 * Abs(price - entry) > 3 * step)),
                  notes \o flag.notes)

\* part_007, rule breakdown-short
simBreakdownCheck(d, notes) ==
    IF ~Truthy(d.price) \/ ~Truthy(d.dayLow) \/ ~Truthy(d.dayHigh) THEN NoRes(notes)
    ELSE
      LET price == ToNum(d.price)
          dayHigh == ToNum(d.dayHigh)
          dayLow == ToNum(d.dayLow)
          step == dynamicStep(price)
      \* price < dayLow + (dayHigh - dayLow) * 0.05
      IN  IF 20 * (price - dayLow) < dayHigh - dayLow
          THEN Res(Proposal("put", Num(ToFixed2(2 * price + step, 2)),
                            Num(ToFixed2(price + 2 * step, 1)),
                            Num(ToFixed2(dayLow - (dayHigh - dayLow), 1)), Bool(FALSE)),
                   notes \o <<"Price is pressing the low of the day -> breakdown risk.">>)
          ELSE NoRes(notes)

----------------------------------------------------------------------------
(* Rule registry.  A rule is [name, kind]; kind selects its check body.   *)

Rule(name, kind) == [name |-> name, kind |-> kind]

\* the registry once the modules are loaded
startupRules(eng) ==
    CASE eng = "base" ->
           <<Rule("Bullish Flag Golden Play", "baseFlag"),
             Rule("Basic MA Trend", "baseTrend")>>
      [] eng = "adv" ->
           <<Rule("Bullish Flag Golden Play", "advFlag"),
             Rule("Basic MA Trend", "advTrend"),
             Rule("Even Number Breakout + MA Cluster", "advEven"),
             Rule("Double Top / Bottom Reversal", "advDouble"),
             Rule("Rounding Bottom / Top Swing", "advRounding")>>
      [] OTHER ->
           <<Rule("bull-flag-entry", "simFlag"),
             Rule("breakdown-short", "simBreakdown")>>

\* Rules a caller may hand to addRule: one whose check throws, and one
\* that always proposes, with an object that has no wait field.
UserRules ==
    {Rule("Custom Thrower", "userThrow"),
     Rule("Custom Always", "userFire")}

\* addRule putting the rule in front: rules.unshift(rule)
addRuleFront(rs, rule) == <<rule>> \o rs

\* addRule(rule): rules.push(rule)
addRule(rs, rule) == Append(rs, rule)

\* rule.check(data, notes, context)
ruleCheck(rule, d, notes, h) ==
    CASE rule.kind = "baseFlag"     -> baseFlagCheck(d, notes)
      [] rule.kind = "baseTrend"    -> baseTrendCheck(d, notes)
      [] rule.kind = "advFlag"      -> advFlagCheck(d, notes)
      [] rule.kind = "advTrend"     -> advTrendCheck(d, notes)
      [] rule.kind = "advEven"      -> advEvenCheck(d, notes)
      [] rule.kind = "advDouble"    -> advDoubleCheck(d, notes, h)
      [] rule.kind = "advRounding"  -> advRoundingCheck(d, notes, h)
      [] rule.kind = "simFlag"      -> simFlagCheck(d, notes)
      [] rule.kind = "simBreakdown" -> simBreakdownCheck(d, notes)
      [] rule.kind = "userThrow"    -> [res |-> Nothing, notes |-> notes, threw |-> TRUE]
      [] OTHER                      ->
           Res(Proposal("call", Num(1000), Num(500), Num(2000), Undef),
               notes \o <<"custom rule proposes">>)

----------------------------------------------------------------------------
(* Decision engine *)

Decision(valid, dir, entry, stop, target, wait, notes) ==
    [valid |-> valid, direction |-> dir, entry |-> entry, stop |-> stop,
     target |-> target, wait |-> wait, notes |-> notes]

\* a no-trade result that tells the caller not to wait
NoTradeGo(notes) == Decision(FALSE, "none", EmptyStr, EmptyStr, EmptyStr, Bool(FALSE), notes)

\* the no-trade result of decideTrade
NoTrade(notes) == Decision(FALSE, "none", EmptyStr, EmptyStr, EmptyStr, Bool(TRUE), notes)

\* what the decision slot holds when no Decision was returned
NoDecision == Decision(FALSE, "", Undef, Undef, Undef, Undef, <<>>)

\* the Decision built from a proposal: core.js copies the fields and
\* coerces wait with !!, part_004 and part_007 spread the proposal
\* the fired Decision with core.js negating the proposal's wait once (!res.wait)
firedDecisionNegated(eng, res, notes) ==
    Decision(TRUE, res.direction, res.entry, res.stop, res.target,
             IF eng = "base" THEN Bool(~Truthy(res.wait)) ELSE res.wait,
             notes)

\* the Decision returned when a rule has proposed: core.js builds it field by
\* field with wait: !!res.wait, the other two spread the proposal
firedDecision(eng, res, notes) ==
    Decision(TRUE, res.direction, res.entry, res.stop, res.target,
             IF eng = "base" THEN Bool(Truthy(res.wait)) ELSE res.wait,
             notes)

\* the for-of loop of decideTrade from rule i on; inv are the names of the
\* rules whose check has been called
RECURSIVE ruleLoop(_, _, _, _, _, _, _)
ruleLoop(eng, rs, i, d, h, notes, inv) ==
    IF i > Len(rs)
    THEN [outcome |-> "returned",
          decision |-> NoTrade(notes \o <<"No rule fired -> no simple trade.">>),
          invoked |-> inv]
    ELSE
      LET rule == rs[i]
          n1 == notes \o <<"Checking rule: " \o rule.name>>
          c == ruleCheck(rule, d, n1, h)
          inv1 == Append(inv, rule.name)
      IN  IF c.threw
          THEN IF eng = "sim"
               THEN ruleLoop(eng, rs, i + 1, d, h,
                             c.notes \o <<"Rule error: " \o rule.name \o " -> Error">>, inv1)
               ELSE [outcome |-> "threw", decision |-> NoDecision, invoked |-> inv1]
          ELSE IF c.res.fired
          THEN [outcome |-> "returned",
                decision |-> firedDecision(eng, c.res, c.notes \o <<"Rule fired: " \o rule.name>>),
                invoked |-> inv1]
          ELSE ruleLoop(eng, rs, i + 1, d, h, c.notes, inv1)

Reverse(q) == [i \in 1..Len(q) |-> q[Len(q) + 1 - i]]

\* decideTrade walking the registry from its last rule to its first
decideTradeBackwards(eng, rs, d, h) ==
    IF eng = "base" /\ \E x \in {d.price, d.maFast, d.maSlow} : Missing(x)
    THEN [outcome |-> "returned",
          decision |-> NoTrade(<<"Could not read price and moving averages clearly.">>),
          invoked |-> <<>>]
    ELSE ruleLoop(eng, Reverse(rs), 1, d, h, <<>>, <<>>)

\* decideTrade(data, context): core.js first rejects a snapshot without
\* price and moving averages; part_004 and part_007 go straight to the rules
decideTrade(eng, rs, d, h) ==
    IF eng = "base" /\ \E x \in {d.price, d.maFast, d.maSlow} : Missing(x)
    THEN [outcome |-> "returned",
          decision |-> NoTrade(<<"Could not read price and moving averages clearly.">>),
          invoked |-> <<>>]
    ELSE ruleLoop(eng, rs, 1, d, h, <<>>, <<>>)

----------------------------------------------------------------------------
(* Options contract picker *)

\* x.toFixed(2) as text, for x a multiple of 10 thousandths
Fixed2Str(x) ==
    LET a == Abs(x)
        cents == (a % 1000) \div 10
    IN  (IF x < 0 THEN "-" ELSE "") \o ToString(a \div 1000) \o "." \o
        (IF cents < 10 THEN "0" ELSE "") \o ToString(cents)

\* a value inside a template literal
ValStr(x) ==
    CASE x.t = "num"   -> FmtNum(x.v)
      [] x.t = "str"   -> Fixed2Str(x.v)
      [] x.t = "empty" -> ""
      [] x.t = "null"  -> "null"
      [] x.t = "undef" -> "undefined"
      [] x.t = "bool"  -> IF x.v = 1 THEN "true" ELSE "false"
      [] OTHER         -> "NaN"

\* a comparison that null fails as undefined does
daysLeNumbersOnly(days, k) == days.t = "num" /\ days.v <= k

\* daysToExpiry <= k: null compares as 0, undefined and NaN never compare.
\* daysToExpiry is a value whose v counts whole days.
daysLe(days, k) == ~IsNaN(days) /\ ToNum(days) <= k

Candidate(label, strike, moneyness, styleHint) ==
    [label |-> label, strike |-> strike, moneyness |-> moneyness,
     styleHint |-> styleHint]

NoCandidate == Candidate("", 0, "", "")

\* An OptionsPlan.  recKind tells what plan.recommended is ("null", "undef"
\* for a missing property, "cand" for a candidate), candKind what
\* plan.candidates is ("array" or "undef"); notes is `notes` in part_004
\* and `details` in core.js, as notesKey names.
Plan(dirText, summary, recKind, rec, candKind, cands, notesKey, notes) ==
    [directionText |-> dirText, summary |-> summary, recKind |-> recKind,
     recommended |-> rec, candKind |-> candKind, candidates |-> cands,
     notesKey |-> notesKey, notes |-> notes]

NoPlan == Plan("", "", "undef", NoCandidate, "undef", <<>>, "", <<>>)

\* moneyness that reads a put as it reads a call
moneynessAsCall(direction, strike, entry) ==
    IF strike < entry THEN "ITM" ELSE IF strike = entry THEN "ATM" ELSE "OTM"

\* moneyness of a strike against the entry
moneynessOf(direction, strike, entry) ==
    IF direction = "call"
    THEN (IF strike < entry THEN "ITM" ELSE IF strike = entry THEN "ATM" ELSE "OTM")
    ELSE (IF strike > entry THEN "ITM" ELSE IF strike = entry THEN "ATM" ELSE "OTM")

styleHintOf(idx) ==
    IF idx = 0 THEN "balanced risk/reward, clean alignment with entry"
    ELSE IF idx = 1 THEN "cheaper, higher leverage, more aggressive"
    ELSE "safer, more expensive, more forgiving"

\* Math.round(s * 100) / 100
roundStrike(s) == MathRound(s, 10) * 10

upper(direction) ==
    IF direction = "call" THEN "CALL" ELSE IF direction = "put" THEN "PUT" ELSE "NONE"

\* the buckets with < where the code has <=
expiryBucketStrict(days) ==
    IF ~IsNaN(days) /\ ToNum(days) < 2 THEN "0DTE-2DTE scalp"
    ELSE IF ~IsNaN(days) /\ ToNum(days) < 5 THEN "short-term momentum"
    ELSE IF ~IsNaN(days) /\ ToNum(days) < 10 THEN "swing for about a week"
    ELSE IF ~IsNaN(days) /\ ToNum(days) < 20 THEN "1-3 week swing"
    ELSE "position trade"

\* expiryBucket of part_004
expiryBucket(days) ==
    IF daysLe(days, 2) THEN "0DTE-2DTE scalp"
    ELSE IF daysLe(days, 5) THEN "short-term momentum"
    ELSE IF daysLe(days, 10) THEN "swing for about a week"
    ELSE IF daysLe(days, 20) THEN "1-3 week swing"
    ELSE "position trade"

\* the recommended index with the middle bucket reaching to 20 days
recommendedIndexTo20(days) ==
    IF daysLe(days, 2) THEN 1 ELSE IF daysLe(days, 20) THEN 0 ELSE 2

\* recommendedIndex: 1 up to 2 days, 0 up to 10 days, else 2
recommendedIndex(days) ==
    IF daysLe(days, 2) THEN 1 ELSE IF daysLe(days, 10) THEN 0 ELSE 2

\* the candidates of part_004 for a decision, in array order
candidatesOf(dec, underlying) ==
    LET entry == ToNum(dec.entry)
        raw == <<entry,
                 IF dec.direction = "call" THEN entry + 1000 ELSE entry - 1000,
                 IF dec.direction = "call" THEN entry - 1000 ELSE entry + 1000>>
    IN  [idx \in 1..3 |->
           LET strike == roundStrike(raw[idx])
           IN  Candidate(underlying \o " " \o FmtNum(strike) \o " " \o upper(dec.direction),
                         strike, moneynessOf(dec.direction, strike, entry),
                         styleHintOf(idx - 1))]

\* the risk:reward text: rewardPerShare > 0 ? (reward / risk).toFixed(2) : "N/A"
rrText(entry, stop, target) ==
    LET riskPerShare == Abs(entry - stop)
        rewardPerShare == Abs(target - entry)
    IN  IF rewardPerShare > 0
        THEN (IF riskPerShare = 0 THEN "Infinity"
              ELSE Fixed2Str(ToFixed2(1000 * rewardPerShare, riskPerShare)))
        ELSE "N/A"

\* the no-trade test with its sense inverted
advNoTradeInverted(dec) == dec.valid

\* the test that sends part_004's pickOptionsContract to its no-trade plan
advNoTrade(dec) == ~dec.valid

\* the test that sends core.js's pickOptionsContract to its no-trade plan
baseNoTrade(dec) == ~dec.valid \/ dec.direction = "none"

\* pickOptionsContract(decision, daysToExpiry, underlying, ivHint) of part_004;
\* ivHint is "" when the caller passes none
advPick(dec, days, underlying, ivHint) ==
    IF advNoTrade(dec)
    THEN Plan("No clear trade.", "The setup is not clean enough to choose a contract.",
              "null", NoCandidate, "array", <<>>, "notes",
              <<"No rule fired strongly enough to justify an options position.",
                "Wait for a cleaner alignment of price, MAs, and pattern.">>)
    ELSE
      LET dirText == IF dec.direction = "call" THEN "CALL - expecting upside."
                     ELSE "PUT - expecting downside."
          entry == ToNum(dec.entry)
          stop == ToNum(dec.stop)
          target == ToNum(dec.target)
          cands == candidatesOf(dec, underlying)
      IN  Plan(dirText,
               "Advanced contract guidance based on your golden rules and current setup.",
               "cand", cands[recommendedIndex(days) + 1], "array", cands, "notes",
               <<"Direction: " \o dirText,
                 "Plan entry: " \o Fixed2Str(ToFixed2(entry, 1)) \o ", stop: "
                    \o Fixed2Str(ToFixed2(stop, 1)) \o ", target: "
                    \o Fixed2Str(ToFixed2(target, 1)) \o ".",
                 "Approx R:R on the underlying: " \o rrText(entry, stop, target) \o ":1.",
                 "Timeframe: " \o expiryBucket(days) \o ".">> \o
               (IF ivHint # "" THEN <<"Implied volatility context: " \o ivHint \o ".">>
                ELSE <<>>) \o
               <<IF Truthy(dec.wait)
                 THEN "Price is stretched relative to the planned entry -> WAIT for a better fill."
                 ELSE "Price is close enough to the planned entry -> OK to begin scaling in.",
                 "Use the underlying stop, not the option price, to manage risk.">>)

\* pickOptionsContract(decision, daysToExpiry) of core.js
basePick(dec, days) ==
    IF baseNoTrade(dec)
    THEN Plan("No clear trade.", "The setup is not clean enough to choose a contract.",
              "undef", NoCandidate, "undef", <<>>, "details", <<>>)
    ELSE
      LET dirText == IF dec.direction = "call"
                     THEN "CALL - you are betting price will go up from the entry."
                     ELSE "PUT - you are betting price will go down from the entry."
          expiryText ==
              IF daysLe(days, 2) THEN "very short-term scalp (1-2 days)."
              ELSE IF daysLe(days, 5) THEN "short-term move (3-5 days)."
              ELSE IF daysLe(days, 10) THEN "about a week or so."
              ELSE IF daysLe(days, 20) THEN "a couple of weeks."
              ELSE "a swing over about a month."
      IN  Plan(dirText, "This is the basic contract idea based on your golden rules.",
               "undef", NoCandidate, "undef", <<>>, "details",
               <<"Direction: " \o dirText,
                 "Use a strike near the even-number entry: around " \o ValStr(dec.entry) \o ".",
                 "Place your stop where the plan breaks: about " \o ValStr(dec.stop) \o ".",
                 "Aim for the target zone: around " \o ValStr(dec.target) \o ".",
                 "Pick an expiration that matches how long you expect the move to take: "
                    \o expiryText,
                 IF Truthy(dec.wait)
                 THEN "Price is already stretched away from the ideal entry -> better to WAIT for price to come back to your level."
                 ELSE "Price is close enough to the ideal entry -> you can consider entering now if the plan still makes sense.">>)

\* moneyness as the options page works it out for a chain strike
chainMoneyness(direction, strike, entry) ==
    IF direction = "call"
    THEN (IF strike < entry THEN "ITM" ELSE IF strike = entry THEN "ATM" ELSE "OTM")
    ELSE (IF strike > entry THEN "ITM" ELSE IF strike = entry THEN "ATM" ELSE "OTM")

\* the chain of the options page: 15 strikes around the entry, each with
\* its moneyness and whether it is the recommended strike
optionsChain(dec, rec) ==
    LET entry == ToNum(dec.entry)
        step == dynamicStep(entry)
    IN  [k \in 1..15 |->
           LET strike == roundStrike(entry + (k - 8) * step)
           IN  [strike |-> strike,
                moneyness |-> chainMoneyness(dec.direction, strike, entry),
                isRec |-> strike = rec.strike]]

----------------------------------------------------------------------------
(* Future simulation.  Math.random() returns one of k / RandDen,          *)
(* k in 0 .. RandDen - 1.  Candle values are counted in units of          *)
(* 1 / (2000 * RandDen) thousandths, which makes every term an integer.   *)

RandDen == 4

SimSteps == 30

\* the result slot: n candles pushed, the last one pushed; nan when the
\* price is not a number
SimResult(n, nan, last) == [n |-> n, nan |-> nan, last |-> last]

NoSim == SimResult(0, FALSE, 0)

\* the price simulateFuture works from: core.js takes data.price as it is,
\* part_004 and part_007 take data.price || 0
simPrice(eng, d) ==
    IF eng = "base" THEN d.price
    ELSE IF Truthy(d.price) THEN d.price ELSE Num(0)

\* the flat branch taken only for an invalid decision without a direction
simFlatBoth(eng, dec) == ~dec.valid /\ dec.direction = "none"

\* the test for the flat branch: !decision.valid || decision.direction === "none"
\* in core.js, !decision.valid in the other two
simFlat(eng, dec) ==
    IF eng = "base" THEN ~dec.valid \/ dec.direction = "none" ELSE ~dec.valid

\* simulateFuture(data, decision): the possible results
simulateFuture(eng, d, dec) ==
    LET p == simPrice(eng, d)
        price == ToNum(p)
        flat == simFlat(eng, dec)
        bias == IF dec.direction = "call" THEN 1 ELSE -1
    IN  IF IsNaN(p) THEN {SimResult(SimSteps, TRUE, 0)}
        ELSE IF flat
        \* price + (Math.random() - 0.5) * (price * 0.002)
        THEN {SimResult(SimSteps, FALSE, price * 2000 * RandDen + (2 * k - RandDen) * price * 2) :
                k \in 0..(RandDen - 1)}
        \* thirty times: current += bias * price * 0.003
        \*                          + (Math.random() - 0.5) * (price * 0.001)
        ELSE {SimResult(SimSteps, FALSE,
                        price * 2000 * RandDen + SimSteps * bias * price * 6 * RandDen
                        + (2 * ksum - SimSteps * RandDen) * price) :
                ksum \in 0..(SimSteps * (RandDen - 1))}

\* one candle of the flat branch, Math.random() being k / RandDen:
\* price + (Math.random() - 0.5) * (price * 0.002)
flatCandle(price, k) == price * 2000 * RandDen + (2 * k - RandDen) * price * 2

\* a walk whose noise is ten times as wide: (Math.random() - 0.5) * (price * 0.01)
walkCandleWide(price, bias, current, k) ==
    current + bias * price * 6 * RandDen + (2 * k - RandDen) * price * 10

\* one candle of the walk:
\* current += bias * price * 0.003 + (Math.random() - 0.5) * (price * 0.001)
walkCandle(price, bias, current, k) ==
    current + bias * price * 6 * RandDen + (2 * k - RandDen) * price

\* the states simulateFuture can be in after its next push, from cur
nextCandles(eng, d, dec, cur) ==
    LET p == simPrice(eng, d)
        price == ToNum(p)
        bias == IF dec.direction = "call" THEN 1 ELSE -1
    IN  IF IsNaN(p) THEN {SimResult(cur.n + 1, TRUE, 0)}
        ELSE IF simFlat(eng, dec)
        THEN {SimResult(cur.n + 1, FALSE, flatCandle(price, k)) : k \in 0..(RandDen - 1)}
        ELSE {SimResult(cur.n + 1, FALSE, walkCandle(price, bias, cur.last, k)) :
                k \in 0..(RandDen - 1)}

----------------------------------------------------------------------------
(* Inputs *)

Snap(price, dayHigh, dayLow, maFast, maSlow, ma200) ==
    [price |-> price, dayHigh |-> dayHigh, dayLow |-> dayLow,
     maFast |-> maFast, maSlow |-> maSlow, ma200 |-> ma200]

NoSnap == Snap(Undef, Undef, Undef, Undef, Undef, Undef)

Hist(pts) == [present |-> TRUE, pts |-> pts]
NoHist == [present |-> FALSE, pts |-> <<>>]

\* five points whose maximum is reached twice
DoubleTopHist ==
    Hist(<<Num(100000), Num(105000), Num(102000), Num(105000), Num(101000)>>)

\* five points whose minimum is reached twice, the maximum once
DoubleBottomHist ==
    Hist(<<Num(104000), Num(100000), Num(102000), Num(100000), Num(101000)>>)

\* ten points, lowest in the middle, no price near the extremes twice
RoundingBottomHist ==
    Hist(<<Num(110000), Num(108000), Num(106000), Num(104000), Num(102000),
           Num(100000), Num(101000), Num(103000), Num(105000), Num(107000)>>)

\* ten points, highest in the middle
RoundingTopHist ==
    Hist(<<Num(100000), Num(102000), Num(104000), Num(106000), Num(108000),
           Num(110000), Num(109000), Num(107000), Num(105000), Num(103000)>>)

\* a snapshot on which both the flag rule and the trend rule propose
BothFireSnap ==
    Snap(Num(110000), Num(112000), Num(100000), Num(109200), Num(109000), Num(109500))

\* a snapshot on which no startup rule proposes
NoneFireSnap == Snap(Num(110000), Undef, Undef, Num(109000), Num(109200), Undef)

\* the snapshots of a session
SessionSnaps ==
    {BothFireSnap, NoneFireSnap,
     Snap(Num(110000), Num(112000), Num(100000), Num(109000), Num(109200), Num(109500)),
     Snap(Num(108000), Num(112000), Num(100000), Num(109000), Num(109200), Undef),
     Snap(Undef, Num(112000), Num(100000), Num(109000), Num(109200), Undef),
     Snap(Num(99900), Undef, Undef, Undef, Num(109000), Num(109200)),
     Snap(Num(100200), Num(112000), Num(100000), Num(109000), Num(109200), Undef)}

\* core.js passes no context; the other engines take one
SessionHistories(eng) ==
    IF eng = "adv" THEN {NoHist, Hist(<<>>), DoubleTopHist, RoundingBottomHist}
    ELSE {NoHist}

\* decisions found in storage that no decideTrade of this session made
StoredDecisions ==
    {NoTrade(<<"No rule fired -> no simple trade.">>),
     Decision(FALSE, "call", Num(100000), Str(80000), Str(106000), Bool(FALSE), <<>>),
     Decision(TRUE, "call", Num(100000), Str(80000), Str(106000), Bool(FALSE), <<>>),
     Decision(TRUE, "put", Num(100000), Str(120000), Str(94000), Bool(TRUE), <<>>),
     Decision(TRUE, "call", Num(100000), Str(100000), Str(106000), Bool(FALSE), <<>>),
     Decision(TRUE, "call", Num(100123), Num(100123), Num(100123), Undef, <<>>),
     Decision(TRUE, "put", Num(100126), Num(99000), Num(100126), Bool(FALSE), <<>>)}

\* the decisions pickOptionsContract and the options page are called with
SessionDecisions(eng) ==
    {decideTrade(eng, startupRules(eng), d, NoHist).decision : d \in SessionSnaps}
    \cup StoredDecisions

\* what simulateFuture is called with
SimSnaps == {BothFireSnap, Snap(Undef, Num(112000), Num(100000), Undef, Undef, Undef)}

SimDecisions ==
    {d \in StoredDecisions : d.entry = Num(100000) \/ d.direction = "none"}

\* daysToExpiry values (whole days), null and undefined
Days ==
    {Null, Undef} \cup {[t |-> "num", v |-> n] : n \in {0, 2, 3, 5, 6, 10, 11, 15, 20, 21, 30}}

\* what the options page reads from its expiry field: Number(value)
PageDays == {x \in Days : x.t = "num"} \cup {NaN}

Tickers == {"AVGO"}

Engines == {"base", "adv", "sim"}

----------------------------------------------------------------------------
(* The session: the loaded module, and calls into it one at a time *)

MaxAdded == 2

\* The memo of one earlier decideTrade call: its arguments and its result,
\* whether the call has returned to the caller (earlier) and whether
\* simulateFuture has run since (sims).
NoProbe == [set |-> FALSE, data |-> NoSnap, ctx |-> NoHist, outcome |-> "none",
            decision |-> NoDecision, earlier |-> FALSE, sims |-> FALSE]

NoFlag == [isFlag |-> FALSE, notes |-> <<>>]

\* one processFile invocation before its file arrives: pos is the await it
\* is suspended at, parsed and decision its two locals
NoRun == [pos |-> "none", parsed |-> NoSnap, decision |-> NoDecision]

\* localStorage before any analysis: neither key present.  dataBy and
\* decisionBy name the run and the function that wrote each key.
NoStore ==
    [written |-> FALSE, data |-> NoSnap, decision |-> NoDecision,
     dataBy |-> <<0, "">>, decisionBy |-> <<0, "">>]

\* the page before any file is dropped
NoPage == [runs |-> <<>>, store |-> NoStore]

\* no error caught yet: `let lastErr = null`
NoErr == [attempt |-> 0, kind |-> "null"]

\* the error attempt k ended with: toBlob threw ("blob") or recognize
\* rejected ("recognize")
Err(k, kind) == [attempt |-> k, kind |-> kind]

\* ocrCanvasWithRetries before its call.  attempt and lastErr are the
\* locals of the function; started, failed and sleeps count the attempts
\* begun, the attempts that ended in the catch block and the sleep(delay)
\* calls; inflight counts the attempts awaited at the moment; result is
\* the number of the attempt whose result was returned, thrown the error
\* the call threw.
NoOcr ==
    [variant |-> "", available |-> TRUE, retries |-> 0, pos |-> "idle",
     attempt |-> 0, lastErr |-> NoErr, started |-> 0, failed |-> 0, sleeps |-> 0,
     inflight |-> 0, result |-> 0, thrown |-> NoErr]

\* detectEvenProximity not called yet
NoEven == detectEvenProximity("adv", Undef)

NoSignals ==
    [slope |-> detectMASlope(NoHist), levels |-> detectSupportResistance(NoHist),
     double |-> detectDoubleTopBottom(NoHist),
     rounding |-> detectRounding(NoHist),
     doubleSim |-> detectDoubleTopBottomSim(NoHist)]

\* the snapshots for which an earlier call is kept
ProbeSnaps == {BothFireSnap, NoneFireSnap}

Init ==
    /\ engine \in Engines
    /\ rules = startupRules(engine)
    /\ pc = "idle"
    /\ data = NoSnap
    /\ ctx = NoHist
    /\ daysArg = Undef
    /\ outcome = "none"
    /\ decision = NoDecision
    /\ invoked = <<>>
    /\ plan = NoPlan
    /\ chain = <<>>
    /\ sim = NoSim
    /\ probe = NoProbe
    /\ detected = NoFlag
    /\ signals = NoSignals
    /\ page = NoPage
    /\ ocr = NoOcr
    /\ proximity = NoEven

\* addRule(rule)
AddRule ==
    /\ pc = "idle"
    /\ Len(rules) < Len(startupRules(engine)) + MaxAdded
    /\ \E r \in UserRules : rules' = addRule(rules, r)
    /\ probe' = NoProbe
    /\ UNCHANGED <<page, ocr, proximity, signals, detected, engine, pc, data, ctx, daysArg, outcome, decision, invoked, plan, chain, sim>>

\* decideTrade taking each rule off the registry as it goes (rules.shift())
DecideTradeShift ==
    /\ pc = "idle"
    /\ \E d \in SessionSnaps, h \in SessionHistories(engine) :
         \E r \in {decideTrade(engine, rules, d, h)} :
             /\ data' = d
             /\ ctx' = h
             /\ outcome' = r.outcome
             /\ decision' = r.decision
             /\ invoked' = r.invoked
             /\ probe' \in {probe} \cup
                  (IF d \in ProbeSnaps
                   THEN {[set |-> TRUE, data |-> d, ctx |-> h, outcome |-> r.outcome,
                          decision |-> r.decision, earlier |-> FALSE,
                          sims |-> FALSE]}
                   ELSE {})
    /\ pc' = "decideTrade"
    /\ rules' = IF rules = <<>> THEN rules ELSE Tail(rules)
    /\ UNCHANGED <<page, ocr, proximity, signals, detected, engine, daysArg, plan, chain, sim>>

\* decideTrade(data, context)
DecideTrade ==
    /\ pc = "idle"
    /\ \E d \in SessionSnaps, h \in SessionHistories(engine) :
         \E r \in {decideTrade(engine, rules, d, h)} :
             /\ data' = d
             /\ ctx' = h
             /\ outcome' = r.outcome
             /\ decision' = r.decision
             /\ invoked' = r.invoked
             /\ probe' \in {probe} \cup
                  (IF d \in ProbeSnaps
                   THEN {[set |-> TRUE, data |-> d, ctx |-> h, outcome |-> r.outcome,
                          decision |-> r.decision, earlier |-> FALSE,
                          sims |-> FALSE]}
                   ELSE {})
    /\ pc' = "decideTrade"
    /\ UNCHANGED <<page, ocr, proximity, signals, detected, engine, rules, daysArg, plan, chain, sim>>

\* simulateFuture(data, decision)
SimulateFuture ==
    /\ pc = "idle"
    /\ \E d \in SimSnaps, dec \in SimDecisions :
         /\ data' = d
         /\ decision' = dec
         /\ sim' \in simulateFuture(engine, d, dec)
    /\ pc' = "simulateFuture"
    /\ outcome' = "returned"
    /\ probe' = IF probe.set THEN [probe EXCEPT !.sims = TRUE] ELSE probe
    /\ UNCHANGED <<page, ocr, proximity, signals, detected, engine, rules, ctx, daysArg, invoked, plan, chain>>

\* pickOptionsContract(decision, daysToExpiry, underlying): core.js or
\* part_004; the single-file engine has none
pickOptionsContract(eng, dec, days, underlying) ==
    IF eng = "base" THEN basePick(dec, days) ELSE advPick(dec, days, underlying, "")

PickOptionsContract ==
    /\ pc = "idle"
    /\ engine # "sim"
    /\ \E dec \in SessionDecisions(engine), days \in Days, u \in Tickers :
         /\ decision' = dec
         /\ daysArg' = days
         /\ plan' = pickOptionsContract(engine, dec, days, u)
    /\ pc' = "pickOptionsContract"
    /\ outcome' = "returned"
    /\ UNCHANGED <<page, ocr, proximity, signals, detected, engine, rules, data, ctx, invoked, chain, sim, probe>>

\* the click handler of the options page, on the decision found in storage:
\* stand aside on an invalid decision, else the plan and the chain
RunOptions ==
    /\ pc = "idle"
    /\ engine = "adv"
    /\ \E dec \in SessionDecisions(engine), days \in PageDays, u \in Tickers :
         /\ decision' = dec
         /\ daysArg' = days
         /\ IF ~dec.valid
            THEN plan' = NoPlan /\ chain' = <<>>
            ELSE LET p == pickOptionsContract(engine, dec, days, u)
                 IN  plan' = p /\ chain' = optionsChain(dec, p.recommended)
    /\ pc' = "runOptions"
    /\ outcome' = "returned"
    /\ UNCHANGED <<page, ocr, proximity, signals, detected, engine, rules, data, ctx, invoked, sim, probe>>

\* the caller is done with the result
Return ==
    /\ pc # "idle"
    /\ pc' = "idle"
    /\ data' = NoSnap
    /\ ctx' = NoHist
    /\ daysArg' = Undef
    /\ outcome' = "none"
    /\ decision' = NoDecision
    /\ invoked' = <<>>
    /\ plan' = NoPlan
    /\ chain' = <<>>
    /\ sim' = NoSim
    /\ probe' = IF probe.set THEN [probe EXCEPT !.earlier = TRUE] ELSE probe
    /\ UNCHANGED <<page, ocr, proximity, signals, detected, engine, rules>>

Next ==
    \/ AddRule
    \/ DecideTrade
    \/ SimulateFuture
    \/ PickOptionsContract
    \/ RunOptions
    \/ Return

Spec == Init /\ [][Next]_vars

----------------------------------------------------------------------------
(* decideTrade over a grid of snapshots, on the startup registry *)

Prices ==
    {Undef, Null, NaN, Num(0), Num(99900), Num(108000), Num(110000),
     Num(-5050), Num(-9900)}
DayHighs == {Undef, Num(112000)}
DayLows == {Undef, Num(0), Num(80000), Num(100000), Num(112000)}
FastMAs == {Undef, NaN, Num(109000), Num(109200), Num(-6000)}
SlowMAs == {Undef, Null, Num(109000), Num(109200), Num(-7000)}
LongMAs == {Undef, Null, Num(109500), Num(113000)}

GridSnaps ==
    {Snap(p, hi, lo, f, sl, m) :
       p \in Prices, hi \in DayHighs, lo \in DayLows, f \in FastMAs, sl \in SlowMAs,
       m \in LongMAs}

GridHistories(eng) ==
    IF eng = "adv"
    THEN {NoHist, DoubleTopHist, DoubleBottomHist, RoundingBottomHist, RoundingTopHist}
    ELSE {NoHist}

InitGrid ==
    /\ engine \in Engines
    /\ rules = startupRules(engine)
    /\ pc = "pending"
    /\ data \in GridSnaps
    /\ ctx \in GridHistories(engine)
    /\ daysArg = Undef
    /\ outcome = "none"
    /\ decision = NoDecision
    /\ invoked = <<>>
    /\ plan = NoPlan
    /\ chain = <<>>
    /\ sim = NoSim
    /\ probe = NoProbe
    /\ detected = NoFlag
    /\ signals = NoSignals
    /\ page = NoPage
    /\ ocr = NoOcr
    /\ proximity = NoEven

\* decideTrade(data, context) on the snapshot and history at hand
Evaluate ==
    /\ pc = "pending"
    /\ \E r \in {decideTrade(engine, rules, data, ctx)} :
           /\ outcome' = r.outcome
           /\ decision' = r.decision
           /\ invoked' = r.invoked
    /\ pc' = "decideTrade"
    /\ UNCHANGED <<page, ocr, proximity, signals, detected, engine, rules, data, ctx, daysArg, plan, chain, sim, probe>>

NextGrid == Evaluate

SpecGrid == InitGrid /\ [][NextGrid]_vars

----------------------------------------------------------------------------
(* The bull-flag detector as a function of the snapshot *)

FlagPrices == {Undef, Null, NaN, Num(110000), Num(105000), Num(-5000)}
FlagHighs == {Undef, Null, NaN, Num(112000), Num(120000), Num(100000)}
FlagLows == {Undef, Null, NaN, Num(100000), Num(80000), Num(112000)}
FlagFasts == {Undef, Null, NaN, Num(109000), Num(111000), Num(1000)}
FlagSlows == {Undef, Null, NaN, Num(109200), Num(107000), Num(1500)}
FlagLongs == {Undef, Null, Num(109500), Num(113000), Num(0)}

FlagSnaps ==
    {Snap(p, hi, lo, f, sl, l) :
       p \in FlagPrices, hi \in FlagHighs, lo \in FlagLows,
       f \in FlagFasts, sl \in FlagSlows, l \in FlagLongs}

InitFlag ==
    /\ engine \in Engines
    /\ rules = startupRules(engine)
    /\ pc = "pending"
    /\ data \in FlagSnaps
    /\ ctx = NoHist
    /\ daysArg = Undef
    /\ outcome = "none"
    /\ decision = NoDecision
    /\ invoked = <<>>
    /\ plan = NoPlan
    /\ chain = <<>>
    /\ sim = NoSim
    /\ probe = NoProbe
    /\ detected = NoFlag
    /\ signals = NoSignals
    /\ page = NoPage
    /\ ocr = NoOcr
    /\ proximity = NoEven

\* detectBullFlag(data) on the snapshot at hand
DetectBullFlag ==
    /\ pc = "pending"
    /\ detected' = detectBullFlag(engine, data)
    /\ outcome' = "returned"
    /\ pc' = "detectBullFlag"
    /\ UNCHANGED <<page, ocr, proximity, signals, engine, rules, data, ctx, daysArg, decision, invoked, plan, chain,
                   sim, probe>>

NextFlag == DetectBullFlag

SpecFlag == InitFlag /\ [][NextFlag]_vars

----------------------------------------------------------------------------
(* simulateFuture push by push.  sim.n counts the candles pushed, sim.last *)
(* is the last one pushed (before the first push, the starting price), in  *)
(* the units of the candle operators.                                      *)

WalkSnaps ==
    {Snap(p, Num(112000), Num(100000), Undef, Undef, Undef) :
       p \in {Num(1000), Num(50), Undef}}

InitSim ==
    /\ engine \in Engines
    /\ rules = startupRules(engine)
    /\ pc = "simulating"
    /\ data \in WalkSnaps
    /\ decision \in SimDecisions
    /\ ctx = NoHist
    /\ daysArg = Undef
    /\ outcome = "none"
    /\ invoked = <<>>
    /\ plan = NoPlan
    /\ chain = <<>>
    /\ sim = SimResult(0, IsNaN(simPrice(engine, data)),
                       ToNum(simPrice(engine, data)) * 2000 * RandDen)
    /\ probe = NoProbe
    /\ detected = NoFlag
    /\ signals = NoSignals
    /\ page = NoPage
    /\ ocr = NoOcr
    /\ proximity = NoEven

\* one turn of the for loop: candles.push(...)
PushCandle ==
    /\ pc = "simulating"
    /\ sim.n < SimSteps
    /\ sim' \in nextCandles(engine, data, decision, sim)
    /\ UNCHANGED <<page, ocr, proximity, signals, engine, rules, pc, data, ctx, daysArg, outcome, decision, invoked,
                   plan, chain, probe, detected>>

\* return candles
ReturnCandles ==
    /\ pc = "simulating"
    /\ sim.n = SimSteps
    /\ pc' = "simulateFuture"
    /\ outcome' = "returned"
    /\ UNCHANGED <<page, ocr, proximity, signals, engine, rules, data, ctx, daysArg, decision, invoked, plan, chain,
                   sim, probe, detected>>

NextSim ==
    \/ PushCandle
    \/ ReturnCandles

SpecSim == InitSim /\ [][NextSim]_vars

----------------------------------------------------------------------------
(* The history detectors of part_004 and decideTrade on short histories *)

MaxShort == 4

HistPoints == {Num(100000), Num(101000), Null}

\* five points, the maximum reached once and one price 0.2 under it
NearTopHist ==
    Hist(<<Num(100000), Num(105000), Num(102000), Num(104800), Num(101000)>>)

\* five points, one price 0.305 under the maximum: over 0.3 and within 0.3%
\* of the average
EdgeTopHist ==
    Hist(<<Num(100000), Num(105000), Num(102000), Num(104695), Num(103000)>>)

\* five points, one price 0.305 over the minimum
EdgeBottomHist ==
    Hist(<<Num(104000), Num(100000), Num(102000), Num(100305), Num(103000)>>)

\* five points, no two near an extreme
SingleTopHist ==
    Hist(<<Num(100000), Num(105000), Num(102000), Num(104000), Num(101000)>>)

\* six points of which four carry a price
GappedHist ==
    Hist(<<Num(105000), Null, Num(105000), Num(100000), Null, Num(100000)>>)

\* six points of which five carry a price
GappedTopHist ==
    Hist(<<Num(105000), Null, Num(105000), Num(100000), Num(102000), Num(103000)>>)

\* every history of at most MaxShort points, the absent history, and the
\* longer ones: the pattern histories and the first nine points of one
ShortHistories ==
    {NoHist}
    \cup UNION {{Hist(q) : q \in [1..n -> HistPoints]} : n \in 0..MaxShort}
    \cup {DoubleTopHist, DoubleBottomHist, RoundingBottomHist, RoundingTopHist,
          Hist(SubSeq(RoundingBottomHist.pts, 1, 9)),
          NearTopHist, EdgeTopHist, EdgeBottomHist, SingleTopHist, GappedHist,
          GappedTopHist}

InitHist ==
    /\ engine = "adv"
    /\ rules = startupRules(engine)
    /\ pc = "pending"
    /\ data \in {BothFireSnap, NoneFireSnap}
    /\ ctx \in ShortHistories
    /\ daysArg = Undef
    /\ outcome = "none"
    /\ decision = NoDecision
    /\ invoked = <<>>
    /\ plan = NoPlan
    /\ chain = <<>>
    /\ sim = NoSim
    /\ probe = NoProbe
    /\ detected = NoFlag
    /\ signals = NoSignals
    /\ page = NoPage
    /\ ocr = NoOcr
    /\ proximity = NoEven

\* the four history detectors of part_004 on the history at hand, and
\* detectDoubleTopBottom of part_007
DetectSignals ==
    /\ pc = "pending"
    /\ signals' = [slope |-> detectMASlope(ctx),
                   levels |-> detectSupportResistance(ctx),
                   double |-> detectDoubleTopBottom(ctx),
                   rounding |-> detectRounding(ctx),
                   doubleSim |-> detectDoubleTopBottomSim(ctx)]
    /\ outcome' = "returned"
    /\ pc' = "detectSignals"
    /\ UNCHANGED <<page, ocr, proximity, engine, rules, data, ctx, daysArg, decision, invoked, plan, chain,
                   sim, probe, detected>>

NextHist ==
    \/ DetectSignals
    \/ Evaluate

SpecHist == InitHist /\ [][NextHist]_vars

----------------------------------------------------------------------------
(* detectEvenProximity over the price bands *)

\* prices around the band limits 20, 100, 300 and 1000, on and off the
\* rounded levels, and the prices the detector answers null for
EvenPrices ==
    {Undef, Null, NaN, EmptyStr, Num(0), Num(-10010)}
    \cup {Num(10000 + 5 * k) : k \in 0..10}
    \cup {Num(20000 + 50 * k) : k \in 0..10}
    \cup {Num(100000 + 100 * k) : k \in 0..10}
    \cup {Num(300000 + 500 * k) : k \in 0..10}
    \cup {Num(1000000 + 1000 * k) : k \in 0..10}
    \cup {Num(19990), Num(20010), Num(20110), Num(99900), Num(100210),
          Num(299800), Num(301010), Num(999000), Num(1002010)}

InitEven ==
    /\ engine \in {"adv", "sim"}
    /\ rules = startupRules(engine)
    /\ pc = "pending"
    /\ data \in {Snap(p, Undef, Undef, Undef, Undef, Undef) : p \in EvenPrices}
    /\ ctx = NoHist
    /\ daysArg = Undef
    /\ outcome = "none"
    /\ decision = NoDecision
    /\ invoked = <<>>
    /\ plan = NoPlan
    /\ chain = <<>>
    /\ sim = NoSim
    /\ probe = NoProbe
    /\ detected = NoFlag
    /\ signals = NoSignals
    /\ page = NoPage
    /\ ocr = NoOcr
    /\ proximity = NoEven

\* detectEvenProximity(price) on the price of the snapshot
DetectEvenProximity ==
    /\ pc = "pending"
    /\ proximity' = detectEvenProximity(engine, data.price)
    /\ outcome' = "returned"
    /\ pc' = "detectEvenProximity"
    /\ UNCHANGED <<page, ocr, engine, rules, data, ctx, daysArg, decision, invoked, plan, chain,
                   sim, probe, detected, signals>>

NextEven == DetectEvenProximity

SpecEven == InitEven /\ [][NextEven]_vars

----------------------------------------------------------------------------
(* ocrCanvasWithRetries, await by await *)

MaxRetries == 2

\* the three copies: simulator.js, modules/goldenChartAuto.js and the
\* single-file engine
OcrVariants == {"simulator", "auto", "single"}

InitOcr ==
    /\ engine = "sim"
    /\ rules = startupRules(engine)
    /\ pc = "ocrCanvasWithRetries"
    /\ data = NoSnap
    /\ ctx = NoHist
    /\ daysArg = Undef
    /\ outcome = "none"
    /\ decision = NoDecision
    /\ invoked = <<>>
    /\ plan = NoPlan
    /\ chain = <<>>
    /\ sim = NoSim
    /\ probe = NoProbe
    /\ detected = NoFlag
    /\ signals = NoSignals
    /\ page = NoPage
    /\ proximity = NoEven
    /\ \E v \in OcrVariants, a \in BOOLEAN, r \in 0..MaxRetries :
         ocr = [NoOcr EXCEPT !.variant = v, !.available = a, !.retries = r,
                             !.pos = "called"]

OcrFrame ==
    UNCHANGED <<page, engine, rules, pc, data, ctx, daysArg, outcome, decision, invoked, plan,
                chain, sim, probe, detected, signals, proximity>>

\* a loop test that stops one attempt early
withinRetriesStrict(attempt, retries) == attempt < retries

\* attempt <= retries
withinRetries(attempt, retries) == attempt <= retries

\* the catch block: lastErr = err; attempt++; if (attempt <= retries) await
\* sleep(delay)
catchErr(o, kind) ==
    LET n == o.attempt + 1
    IN  [o EXCEPT !.lastErr = Err(o.started, kind),
                  !.attempt = n,
                  !.failed = @ + 1,
                  !.inflight = 0,
                  !.sleeps = IF withinRetries(n, o.retries) THEN @ + 1 ELSE @,
                  !.pos = IF withinRetries(n, o.retries) THEN "sleep" ELSE "test"]

\* the call: goldenChartAuto throws when there is no Tesseract, the other
\* two go to the loop
OcrCall ==
    /\ ocr.pos = "called"
    /\ ocr' = IF ocr.variant = "auto" /\ ~ocr.available
              THEN [ocr EXCEPT !.pos = "threw",
                               !.thrown = Err(0, "Tesseract not available")]
              ELSE [ocr EXCEPT !.pos = "test"]
    /\ OcrFrame

\* while (attempt <= retries): the next attempt begins with canvas.toBlob,
\* or the loop is left and lastErr thrown
OcrTest ==
    /\ ocr.pos = "test"
    /\ ocr' = IF withinRetries(ocr.attempt, ocr.retries)
              THEN [ocr EXCEPT !.pos = "toBlob", !.started = @ + 1, !.inflight = @ + 1]
              ELSE [ocr EXCEPT !.pos = "threw", !.thrown = ocr.lastErr]
    /\ OcrFrame

\* await new Promise(res => canvas.toBlob(res, 'image/png')): the blob
\* arrives, or toBlob throws
OcrBlob ==
    /\ ocr.pos = "toBlob"
    /\ \/ ocr' = [ocr EXCEPT !.pos = "recognize"]
       \/ ocr' = catchErr(ocr, "blob")
    /\ OcrFrame

\* await Tesseract.recognize(...): the result is returned, or the promise
\* rejects; without Tesseract the call itself throws
OcrRecognize ==
    /\ ocr.pos = "recognize"
    /\ \/ /\ ocr.available
          /\ ocr' = [ocr EXCEPT !.pos = "returned", !.result = ocr.started,
                                !.inflight = 0]
       \/ ocr' = catchErr(ocr, "recognize")
    /\ OcrFrame

\* sleep(delay) is over
OcrWake ==
    /\ ocr.pos = "sleep"
    /\ ocr' = [ocr EXCEPT !.pos = "test"]
    /\ OcrFrame

NextOcr ==
    \/ OcrCall
    \/ OcrTest
    \/ OcrBlob
    \/ OcrRecognize
    \/ OcrWake

SpecOcr == InitOcr /\ [][NextOcr]_vars

\* every await of the call settles: the blob callback, recognize and the
\* timer of sleep
SpecOcrFair == SpecOcr /\ WF_vars(NextOcr)

----------------------------------------------------------------------------
(* The simulator page: overlapping processFile runs, await by await *)

MaxFiles == 2

\* what parseChartText makes of the OCR text of a dropped chart
OcrSnaps == {BothFireSnap, NoneFireSnap}

InitPage ==
    /\ engine \in {"base", "adv"}
    /\ rules = startupRules(engine)
    /\ pc = "processFile"
    /\ data = NoSnap
    /\ ctx = NoHist
    /\ daysArg = Undef
    /\ outcome = "none"
    /\ decision = NoDecision
    /\ invoked = <<>>
    /\ plan = NoPlan
    /\ chain = <<>>
    /\ sim = NoSim
    /\ probe = NoProbe
    /\ detected = NoFlag
    /\ signals = NoSignals
    /\ proximity = NoEven
    /\ ocr = NoOcr
    /\ page = NoPage

PageFrame ==
    UNCHANGED <<engine, rules, pc, data, ctx, daysArg, outcome, decision, invoked, plan,
                chain, sim, probe, detected, signals, proximity, ocr>>

\* a save that writes gf_data and leaves gf_decision for later
persistDataOnly(st, by, parsed, dec) ==
    [st EXCEPT !.written = TRUE, !.data = parsed, !.dataBy = by]

\* localStorage.setItem('gf_data', ...); localStorage.setItem('gf_decision',
\* ...), one after the other with no await between
persist(st, by, parsed, dec) ==
    [st EXCEPT !.written = TRUE, !.data = parsed, !.dataBy = by,
               !.decision = dec, !.decisionBy = by]

\* run r moves to pos
moveTo(r, pos) == [page EXCEPT !.runs[r].pos = pos]

\* a render that threw: the first one is caught and renderAndAnnotate
\* renders again, the second one ends processFile in its catch block
renderFailed(r) ==
    IF page.runs[r].pos \in {"renderLoad", "renderOcr"}
    THEN moveTo(r, "fallbackLoad")
    ELSE moveTo(r, "failed")

\* the change / drop handler: a file arrives and processFile(file) runs up
\* to `await loadImageFromFile(file)`
Drop ==
    /\ Len(page.runs) < MaxFiles
    /\ page' = [page EXCEPT !.runs = Append(@, [NoRun EXCEPT !.pos = "load"])]
    /\ PageFrame

\* the image has loaded, or not; on to `await ocrCanvasWithRetries(...)`
Load ==
    /\ \E r \in DOMAIN page.runs :
         /\ page.runs[r].pos = "load"
         /\ \/ page' = moveTo(r, "ocr")
            \/ page' = moveTo(r, "failed")
    /\ PageFrame

\* the OCR is back, or has thrown: parseChartText, decideTrade and the
\* detectors run, up to `await renderGoldenChartFromFile(canvas, file)`
Ocr ==
    /\ \E r \in DOMAIN page.runs :
         /\ page.runs[r].pos = "ocr"
         /\ \/ \E parsed \in OcrSnaps :
               \E res \in {decideTrade(engine, rules, parsed, Hist(<<>>))} :
                     page' = IF res.outcome = "threw" THEN moveTo(r, "failed")
                             ELSE [page EXCEPT !.runs[r] =
                                     [pos |-> "renderLoad", parsed |-> parsed,
                                      decision |-> res.decision]]
            \/ page' = moveTo(r, "failed")
    /\ PageFrame

\* renderGoldenChartFromFile: its own image has loaded, or not
RenderLoad ==
    /\ \E r \in DOMAIN page.runs :
         /\ page.runs[r].pos \in {"renderLoad", "fallbackLoad"}
         /\ \/ page' = moveTo(r, IF page.runs[r].pos = "renderLoad" THEN "renderOcr"
                                  ELSE "fallbackOcr")
            \/ page' = renderFailed(r)
    /\ PageFrame

\* renderGoldenChartFromFile: its own OCR is back; it parses, decides,
\* paints and saves its pair, and returns to processFile
RenderOcr ==
    /\ \E r \in DOMAIN page.runs :
         /\ page.runs[r].pos \in {"renderOcr", "fallbackOcr"}
         /\ \/ \E parsed \in OcrSnaps :
               \E res \in {decideTrade(engine, rules, parsed, NoHist)} :
                     page' = IF res.outcome = "threw" THEN renderFailed(r)
                             ELSE [page EXCEPT
                                     !.runs[r].pos = "save",
                                     !.store = persist(@, <<r, "renderGoldenChartFromFile">>,
                                                       parsed, res.decision)]
            \/ page' = renderFailed(r)
    /\ PageFrame

\* processFile after the render: it saves its own pair and writes the
\* summary
Save ==
    /\ \E r \in DOMAIN page.runs :
         /\ page.runs[r].pos = "save"
         /\ page' = [page EXCEPT
                       !.runs[r].pos = "done",
                       !.store = persist(@, <<r, "processFile">>, page.runs[r].parsed,
                                         page.runs[r].decision)]
    /\ PageFrame

NextPage ==
    \/ Drop
    \/ Load
    \/ Ocr
    \/ RenderLoad
    \/ RenderOcr
    \/ Save

SpecPage == InitPage /\ [][NextPage]_vars

----------------------------------------------------------------------------
(* Claims *)

\* a decideTrade call has come back with a Decision
Decided == pc = "decideTrade" /\ outcome = "returned"

\* what rule i of the registry answers on the snapshot and history at hand
CheckOf(i) == ruleCheck(rules[i], data, <<>>, ctx)

\* the decision carries the proposal of rule i
CarriesProposal(i) ==
    /\ decision.direction = CheckOf(i).res.direction
    /\ decision.entry = CheckOf(i).res.entry
    /\ decision.stop = CheckOf(i).res.stop
    /\ decision.target = CheckOf(i).res.target

CoreInputMissing == Missing(data.price) \/ Missing(data.maFast) \/ Missing(data.maSlow)

\* C1: on a snapshot whose price, maFast or maSlow is missing, decideTrade of
\* core.js and of part_004 with the rules of part_005 returns valid = false
\* and direction "none", whatever the other fields and the history hold.
C1_MissingInputNoTrade ==
    (pc = "decideTrade" /\ engine \in {"base", "adv"} /\ CoreInputMissing)
    => (outcome = "returned" /\ ~decision.valid /\ decision.direction = "none")

\* C2: a valid Decision carries the proposal of the first rule, in
\* registration order, whose check proposes, and the checks that ran are
\* those of the rules up to it and no other; an invalid Decision after the
\* rules were tried means that none proposed.  On the snapshot that makes
\* both the flag rule and the trend rule propose, the levels are the flag
\* rule's.
C2_FirstMatchWins ==
    /\ (Decided /\ decision.valid) =>
         \E k \in 1..Len(rules) :
           /\ CheckOf(k).res.fired
           /\ \A i \in 1..(k - 1) : ~CheckOf(i).res.fired
           /\ CarriesProposal(k)
           /\ invoked = [i \in 1..k |-> rules[i].name]
    /\ (Decided /\ ~decision.valid /\ invoked # <<>>) =>
         /\ \A i \in 1..Len(rules) : ~CheckOf(i).res.fired
         /\ invoked = [i \in 1..Len(rules) |-> rules[i].name]
    /\ (Decided /\ data = BothFireSnap /\ engine \in {"base", "adv"}) =>
         /\ CheckOf(1).res.fired /\ CheckOf(2).res.fired
         /\ CheckOf(1).res.target # CheckOf(2).res.target
         /\ rules[1].name = "Bullish Flag Golden Play"
         /\ CarriesProposal(1)

C2_Witness ==
    /\ Decided /\ data = BothFireSnap /\ engine = "adv" /\ Len(rules) > 5
    /\ decision.target = Str(118000)
    /\ CheckOf(2).res.target = Str(122000)

\* C3: in each engine a rule whose check throws does not make decideTrade
\* throw: the call still returns a Decision, the notes name the failed rule,
\* and the rules after it are tried.
C3_ThrowContained ==
    pc = "decideTrade" =>
      /\ outcome = "returned"
      /\ \A i \in 1..Len(invoked) :
           CheckOf(i).threw =>
             \E j \in 1..Len(decision.notes) :
               decision.notes[j] = "Rule error: " \o rules[i].name \o " -> Error"

\* C4: with the startup rules, an invalid Decision has direction "none",
\* empty entry, stop and target and wait = true; a valid one has direction
\* "call" or "put"; and when the rules were tried and none proposed the
\* Decision is invalid and its last note is the no-rule-fired note.
C4_DecisionShape ==
    Decided =>
      /\ ~decision.valid =>
           /\ decision.direction = "none"
           /\ decision.entry = EmptyStr /\ decision.stop = EmptyStr
           /\ decision.target = EmptyStr
           /\ decision.wait = Bool(TRUE)
      /\ decision.valid => decision.direction \in {"call", "put"}
      /\ (Len(invoked) = Len(rules) /\ \A i \in 1..Len(rules) : ~CheckOf(i).res.fired) =>
           /\ ~decision.valid
           /\ decision.notes[Len(decision.notes)] = "No rule fired -> no simple trade."

C4_Witness ==
    /\ Decided /\ ~decision.valid /\ engine = "adv" /\ Len(invoked) = 5
    /\ ~Missing(data.price) /\ ~Missing(data.maFast) /\ ~Missing(data.maSlow)

\* the registry names are pairwise different
UniqueNames == \A i, j \in 1..Len(rules) : rules[i].name = rules[j].name => i = j

\* where the note "Checking rule: <name of rule i>" stands in the notes
CheckingAt(i) ==
    {j \in 1..Len(decision.notes) : decision.notes[j] = "Checking rule: " \o rules[i].name}

\* The notes of a valid Decision that rule k produced: one checking note per
\* rule up to k, in registration order, each followed by the notes its rule
\* pushed, none for a later rule, and the fired note last.
AuditTrail(k) ==
    LET N == decision.notes
        pos(i) == CHOOSE j \in CheckingAt(i) : TRUE
    IN  /\ \A i \in 1..k : Cardinality(CheckingAt(i)) = 1
        /\ \A i \in (k + 1)..Len(rules) : CheckingAt(i) = {}
        /\ \A i \in 1..(k - 1) : pos(i) < pos(i + 1)
        /\ \A i \in 1..k :
             LET rn == CheckOf(i).notes
                 next == IF i < k THEN pos(i + 1) ELSE Len(N)
             IN  /\ pos(i) + Len(rn) < next
                 /\ SubSeq(N, pos(i) + 1, pos(i) + Len(rn)) = rn
        /\ N[Len(N)] = "Rule fired: " \o rules[k].name

\* C5: when rule k fires, the notes hold exactly one checking note for each
\* rule up to k in registration order, with the notes of each rule after its
\* own checking note and before the next, no checking note for a later rule,
\* and the fired note last; the Decision is valid, carries the proposal's
\* direction, entry, stop and target, and its wait is a boolean even when
\* the proposal has no wait.
C5_AuditTrail ==
    (Decided /\ decision.valid /\ UniqueNames) =>
      LET k == Len(invoked)
      IN  /\ k >= 1 /\ CheckOf(k).res.fired
          /\ AuditTrail(k)
          /\ CarriesProposal(k)
          /\ decision.wait.t = "bool"

\* C6: decideTrade called again on the same snapshot and history, with no
\* rule registered in between, gives the same outcome and the same Decision
\* as before, whatever was decided, simulated or picked in between.
C6_Deterministic ==
    (pc = "decideTrade" /\ probe.set /\ probe.data = data /\ probe.ctx = ctx)
    => (probe.outcome = outcome /\ probe.decision = decision)

C6_Witness ==
    /\ pc = "decideTrade" /\ probe.set /\ probe.earlier /\ probe.sims
    /\ probe.data = data /\ probe.ctx = ctx
    /\ outcome = "returned" /\ decision.valid

\* the rule that fired, as the last note names it
FiredRule(name) ==
    /\ Decided /\ decision.valid
    /\ decision.notes[Len(decision.notes)] = "Rule fired: " \o name

\* C7: for a Decision of the flag rule or of the trend rule of core.js and
\* part_005, wait is true exactly when the price is more than 2% above the
\* entry for a call, more than 2% below it for a put.
C7_WaitIffStretched ==
    (engine \in {"base", "adv"}
       /\ (FiredRule("Bullish Flag Golden Play") \/ FiredRule("Basic MA Trend"))) =>
      LET price == ToNum(data.price)
          entry == ToNum(decision.entry)
      IN  /\ decision.wait.t = "bool"
          /\ decision.direction = "call" => (Truthy(decision.wait) <=> 100 * price > 102 * entry)
          /\ decision.direction = "put" => (Truthy(decision.wait) <=> 100 * price < 98 * entry)

C7_Witness ==
    /\ engine = "base" /\ FiredRule("Basic MA Trend")
    /\ decision.direction = "call" /\ decision.wait = Bool(TRUE)
    /\ 100 * ToNum(data.price) > 102 * ToNum(decision.entry)

\* moneyness m is what the strike and the entry make it for the direction
RightMoneyness(direction, strike, entry, m) ==
    IF direction = "call"
    THEN /\ m = "ITM" <=> strike < entry
         /\ m = "ATM" <=> strike = entry
         /\ m = "OTM" <=> strike > entry
    ELSE /\ m = "ITM" <=> strike > entry
         /\ m = "ATM" <=> strike = entry
         /\ m = "OTM" <=> strike < entry

\* C8: every candidate of a plan and every strike of the chain is ITM, ATM
\* or OTM by its strike against the entry: a call is ITM below the entry and
\* OTM above it, a put the other way round, and ATM at the entry; with
\* entry 100 a call at 95 is ITM and at 105 OTM, a put at 95 is OTM and at
\* 105 ITM.
C8_Moneyness ==
    /\ pc \in {"pickOptionsContract", "runOptions"} =>
         LET entry == ToNum(decision.entry)
         IN  /\ \A i \in 1..Len(plan.candidates) :
                  RightMoneyness(decision.direction, plan.candidates[i].strike, entry,
                                 plan.candidates[i].moneyness)
             /\ \A i \in 1..Len(chain) :
                  RightMoneyness(decision.direction, chain[i].strike, entry,
                                 chain[i].moneyness)
    /\ \A f \in {"picker", "chain"} :
         LET m(dir, strike) == IF f = "picker" THEN moneynessOf(dir, strike, 100000)
                               ELSE chainMoneyness(dir, strike, 100000)
         IN  /\ m("call", 95000) = "ITM" /\ m("call", 105000) = "OTM"
             /\ m("put", 95000) = "OTM" /\ m("put", 105000) = "ITM"
             /\ m("call", 100000) = "ATM" /\ m("put", 100000) = "ATM"

C8_Witness ==
    /\ pc = "runOptions" /\ decision.direction = "put"
    /\ Len(plan.candidates) = 3 /\ Len(chain) = 15
    /\ \E i \in 1..3 : plan.candidates[i].moneyness = "OTM"
    /\ \E i, j \in 1..15 : chain[i].moneyness = "ITM" /\ chain[j].moneyness = "ATM"

\* a pickOptionsContract call of part_004 on a valid decision has returned
Picked == pc = "pickOptionsContract" /\ engine = "adv" /\ decision.valid

\* C9 as stated: with 2 days the aggressive candidate is recommended, with
\* 15 days the at-entry candidate, with 30 days the conservative one.
C9_RecommendedAsStated ==
    Picked =>
      /\ daysArg = Num(2) => plan.recommended = plan.candidates[2]
      /\ daysArg = Num(15) => plan.recommended = plan.candidates[1]
      /\ daysArg = Num(30) => plan.recommended = plan.candidates[3]

\* C9 (amended): with 2 days the aggressive candidate (further out of the
\* money) is recommended, with 15 days and with 30 days the conservative
\* one (in the money); the at-entry candidate is the recommended one from
\* 3 to 10 days.
C9_RecommendedByExpiry ==
    Picked =>
      /\ plan.recKind = "cand"
      /\ daysArg = Num(2) =>
           /\ plan.recommended = plan.candidates[2]
           /\ plan.recommended.moneyness = "OTM"
           /\ plan.recommended.styleHint = "cheaper, higher leverage, more aggressive"
      /\ daysArg \in {Num(15), Num(30)} =>
           /\ plan.recommended = plan.candidates[3]
           /\ plan.recommended.moneyness = "ITM"
           /\ plan.recommended.styleHint = "safer, more expensive, more forgiving"
      /\ daysArg \in {Num(3), Num(10)} =>
           /\ plan.recommended = plan.candidates[1]
           /\ plan.recommended.strike = roundStrike(ToNum(decision.entry))

C9_Witness ==
    /\ Picked /\ daysArg = Num(15) /\ decision.direction = "call"
    /\ plan.recommended = plan.candidates[3]
    /\ plan.recommended # plan.candidates[1]

\* pickOptionsContract has returned for an invalid decision
PickedInvalid ==
    pc = "pickOptionsContract" /\ engine \in {"base", "adv"} /\ ~decision.valid

\* C10 as stated: for an invalid decision either pickOptionsContract returns
\* the "No clear trade." plan with recommended = null and an empty list of
\* candidates.
C10_NoTradePlanAsStated ==
    PickedInvalid =>
      /\ plan.directionText = "No clear trade."
      /\ plan.recKind = "null"
      /\ plan.candKind = "array" /\ plan.candidates = <<>>

\* C10 (amended): for an invalid decision either pickOptionsContract returns
\* the "No clear trade." plan and works out no strike; part_004 returns it
\* with recommended = null and an empty candidates list, core.js with an
\* empty details list and neither a recommended nor a candidates property.
C10_NoTradePlan ==
    PickedInvalid =>
      /\ plan.directionText = "No clear trade."
      /\ plan.summary = "The setup is not clean enough to choose a contract."
      /\ plan.recKind # "cand" /\ plan.candidates = <<>>
      /\ engine = "adv" =>
           plan.recKind = "null" /\ plan.candKind = "array" /\ plan.notesKey = "notes"
      /\ engine = "base" =>
           /\ plan.recKind = "undef" /\ plan.candKind = "undef"
           /\ plan.notesKey = "details" /\ plan.notes = <<>>

C10_Witness ==
    /\ PickedInvalid /\ engine = "base" /\ plan.directionText = "No clear trade."
    /\ plan.recKind = "undef"

\* C11: in the plan of part_004 for a valid decision the risk:reward note
\* reads "N/A" whenever |entry - stop| is zero, and otherwise gives
\* |target - entry| / |entry - stop| to two decimals.
C11_RiskReward ==
    Picked =>
      LET entry == ToNum(decision.entry)
          risk == Abs(entry - ToNum(decision.stop))
          reward == Abs(ToNum(decision.target) - entry)
          rr == IF risk = 0 THEN "N/A" ELSE Fixed2Str(ToFixed2(1000 * reward, risk))
      IN  plan.notes[3] = "Approx R:R on the underlying: " \o rr \o ":1."

\* detectBullFlag has returned
Detected == pc = "detectBullFlag"

\* the worked example of the detector
FlagExample == Snap(Num(110000), Num(112000), Num(100000), Num(109000), Num(109200), Num(109500))

\* C12 as stated: on {price 110, dayHigh 112, dayLow 100, maFast 109,
\* maSlow 109.2, ma200 109.5} detectBullFlag returns isFlag = true, and on
\* the same snapshot with dayLow = 80 it returns isFlag = false.
C12_ExampleAsStated ==
    (Detected /\ engine \in {"base", "adv"}) =>
      /\ data = FlagExample => detected.isFlag
      /\ data = [FlagExample EXCEPT !.dayLow = Num(80000)] => ~detected.isFlag

\* C12 (amended): on the example snapshot detectBullFlag returns
\* isFlag = true, and with dayLow = 80 (range position 0.9375) it still
\* does; with dayHigh = 120 instead (range position 0.5) it returns
\* isFlag = false with no notes.
C12_Example ==
    (Detected /\ engine \in {"base", "adv"}) =>
      /\ data = FlagExample => detected.isFlag
      /\ data = [FlagExample EXCEPT !.dayLow = Num(80000)] => detected.isFlag
      /\ data = [FlagExample EXCEPT !.dayHigh = Num(120000)] =>
           detected = [isFlag |-> FALSE, notes |-> <<>>]

C12_Witness ==
    /\ Detected /\ engine = "base"
    /\ data = [FlagExample EXCEPT !.dayLow = Num(80000)]
    /\ detected.isFlag /\ Len(detected.notes) = 5

\* the five fields the detector needs are there
FlagFieldsPresent ==
    \A x \in {data.price, data.dayHigh, data.dayLow, data.maFast, data.maSlow} :
      x.t = "num"

\* ma200 is there: neither null nor undefined
LongPresent == data.ma200.t = "num"

\* the four conditions of the bull flag, on a snapshot whose fields are there
\* and whose dayHigh is above its dayLow
CondA == 10 * (data.price.v - data.dayLow.v) >= 6 * (data.dayHigh.v - data.dayLow.v)
CondB == data.price.v > data.maFast.v /\ data.price.v > data.maSlow.v
CondC == 100 * Abs(data.maFast.v - data.maSlow.v) <= data.price.v
CondD ==
    LongPresent =>
      LET ms == {data.maFast.v, data.maSlow.v, data.ma200.v}
          hi == CHOOSE a \in ms : \A b \in ms : a >= b
          lo == CHOOSE a \in ms : \A b \in ms : a <= b
      IN  50 * (hi - lo) <= data.price.v

\* C13: on a snapshot with price, dayHigh, dayLow, maFast and maSlow present
\* and dayHigh > dayLow, detectBullFlag returns isFlag = true exactly when
\* the range position is at least 0.6, the price is above both averages,
\* the two averages are within 1% of the price and, when ma200 is present,
\* the three averages are within 2% of the price; a null or undefined
\* ma200 imposes nothing.
C13_FlagIff ==
    (Detected /\ engine \in {"base", "adv"} /\ FlagFieldsPresent
       /\ data.dayHigh.v > data.dayLow.v) =>
      (detected.isFlag <=> (CondA /\ CondB /\ CondC /\ CondD))

\* C14: when one of price, dayHigh, dayLow, maFast, maSlow is null,
\* undefined or NaN, or dayHigh - dayLow is not positive, detectBullFlag
\* returns isFlag = false with no notes, and the flag rule proposes nothing.
C14_FailsClosed ==
    (Detected /\ engine \in {"base", "adv"}
       /\ (~FlagFieldsPresent \/ data.dayHigh.v - data.dayLow.v <= 0)) =>
      /\ outcome = "returned"
      /\ detected = [isFlag |-> FALSE, notes |-> <<>>]
      /\ ~ruleCheck(rules[1], data, <<>>, NoHist).res.fired
      /\ rules[1].name = "Bullish Flag Golden Play"

C14_Witness ==
    /\ Detected /\ engine = "adv" /\ FlagFieldsPresent
    /\ data.dayHigh = Num(100000) /\ data.dayLow = Num(112000)
    /\ data.price = Num(110000) /\ data.maFast = Num(109000) /\ data.maSlow = Num(109200)
    /\ ~detected.isFlag /\ detected.notes = <<>>

\* the notes of the conditions in their fixed order, for the snapshot at hand
FlagNoteOrder ==
    <<FlagNote(engine, 1), FlagNote(engine, 2), FlagNote(engine, 3)>>
    \o (IF LongPresent THEN <<FlagNote(engine, 4)>> ELSE <<>>)
    \o <<FlagNote(engine, 5)>>

\* how many of the conditions hold before the first that fails
SatisfiedBefore ==
    IF ~FlagFieldsPresent \/ data.dayHigh.v <= data.dayLow.v \/ ~CondA THEN 0
    ELSE IF ~CondB THEN 1
    ELSE IF ~CondC THEN 2
    ELSE IF ~CondD THEN 3
    ELSE Len(FlagNoteOrder)

\* C15: the notes of detectBullFlag are a prefix of the upper-range note,
\* the above-both note, the tight note, the clustered note (only when ma200
\* is present) and the pattern note; a rejection at the k-th condition
\* leaves exactly the notes of the k - 1 conditions before it, and the
\* pattern note is there exactly when isFlag = true.
C15_NotesPrefix ==
    (Detected /\ engine \in {"base", "adv"}) =>
      /\ Len(detected.notes) <= Len(FlagNoteOrder)
      /\ detected.notes = SubSeq(FlagNoteOrder, 1, Len(detected.notes))
      /\ Len(detected.notes) = SatisfiedBefore
      /\ detected.isFlag <=>
           \E j \in 1..Len(detected.notes) : detected.notes[j] = FlagNote(engine, 5)

\* simulateFuture is running or has returned, on a positive price
Simulating ==
    /\ pc \in {"simulating", "simulateFuture"}
    /\ data.price.t = "num" /\ data.price.v > 0

\* the price in the units of the candles
PriceUnits == data.price.v * 2000 * RandDen

Walking == Simulating /\ decision.valid /\ decision.direction \in {"call", "put"}

\* +1 for a call, -1 for a put
Side == IF decision.direction = "call" THEN 1 ELSE -1

\* C17: for a valid decision and a positive price p the walk starts from p,
\* each value differs from the one before by 0.3% of p to the decision's
\* side plus a noise of at most 0.1% of p, so the path rises strictly for a
\* call and falls strictly for a put; exactly 30 values are returned, the
\* last between p(1 +- 0.06) and p(1 +- 0.12) on the decision's side.
C17_BiasedWalk ==
    /\ [](Walking =>
            /\ ~sim.nan
            /\ sim.n = 0 => sim.last = PriceUnits
            /\ sim.n <= 30
            /\ pc = "simulateFuture" =>
                 /\ sim.n = 30
                 /\ 100 * Side * (sim.last - PriceUnits) >= 6 * PriceUnits
                 /\ 100 * Side * (sim.last - PriceUnits) <= 12 * PriceUnits)
    /\ [][(Walking /\ sim' # sim) =>
            /\ sim'.n = sim.n + 1
            /\ Abs(1000 * (sim'.last - sim.last) - 3 * Side * PriceUnits) <= PriceUnits
            /\ Side * (sim'.last - sim.last) > 0]_vars

C17_Witness ==
    /\ Walking /\ decision.direction = "put" /\ engine = "adv"
    /\ pc = "simulateFuture" /\ sim.n = 30
    /\ sim.last < PriceUnits /\ data.price = Num(1000)

Shorter(n) == ~ctx.present \/ Len(ctx.pts) < n

\* C19: on an absent or short history the detectors report no signal and
\* none errors: detectMASlope gives null under 3 points,
\* detectSupportResistance no level on an empty history,
\* detectDoubleTopBottom neither pattern under 5 points, detectRounding
\* neither under 10; the double top/bottom rule and the rounding rule
\* propose nothing; and decideTrade returns a Decision when the context
\* has no history.
C19_ShortHistory ==
    /\ pc = "detectSignals" =>
         /\ outcome = "returned"
         /\ Shorter(3) => ~signals.slope.present
         /\ Shorter(1) => signals.levels = [supports |-> {}, resistances |-> {}]
         /\ Shorter(5) =>
              /\ signals.double = [doubleTop |-> FALSE, doubleBottom |-> FALSE]
              /\ ~advDoubleCheck(data, <<>>, ctx).res.fired
         /\ Shorter(10) =>
              /\ signals.rounding = [roundingBottom |-> FALSE, roundingTop |-> FALSE]
              /\ ~advRoundingCheck(data, <<>>, ctx).res.fired
    /\ (pc = "decideTrade" /\ Shorter(5)) =>
         /\ outcome = "returned"
         /\ decision.valid =>
              decision.notes[Len(decision.notes)]
                \notin {"Rule fired: Double Top / Bottom Reversal",
                        "Rule fired: Rounding Bottom / Top Swing"}

C19_Witness ==
    /\ pc = "detectSignals" /\ ctx = Hist(<<Num(101000), Num(100000), Num(101000)>>)
    /\ signals.slope.present /\ signals.slope.priceUp
    /\ ~signals.rounding.roundingBottom /\ ~signals.double.doubleTop

\* pickOptionsContract has built a plan for a trade, on a numeric expiry
PickedNumeric ==
    /\ pc = "pickOptionsContract" /\ engine \in {"base", "adv"}
    /\ plan.directionText # "No clear trade."
    /\ daysArg.t = "num"

\* the bucket of the expiry at hand, by the first bound it is within
BucketNo ==
    IF daysArg.v <= 2 THEN 1
    ELSE IF daysArg.v <= 5 THEN 2
    ELSE IF daysArg.v <= 10 THEN 3
    ELSE IF daysArg.v <= 20 THEN 4
    ELSE 5

\* the wording of the five buckets in each picker
BucketText ==
    IF engine = "adv"
    THEN <<"0DTE-2DTE scalp", "short-term momentum", "swing for about a week",
           "1-3 week swing", "position trade">>
    ELSE <<"very short-term scalp (1-2 days).", "short-term move (3-5 days).",
           "about a week or so.", "a couple of weeks.", "a swing over about a month.">>

HasNote(text) == \E j \in 1..Len(plan.notes) : plan.notes[j] = text

\* C20 as stated: for a numeric expiry either pickOptionsContract puts the
\* expiry in the bucket of the first bound it is within (2, 5, 10, 20, else
\* the last) and the text of the bucket is in the Timeframe note.
C20_TimeframeAsStated ==
    PickedNumeric => HasNote("Timeframe: " \o BucketText[BucketNo] \o ".")

\* C20 (amended): for a numeric expiry either pickOptionsContract puts the
\* expiry in the bucket of the first bound it is within (2, 5, 10, 20, else
\* the last); part_004 gives the text of the bucket in its Timeframe note,
\* core.js in its "Pick an expiration" line, and no other bucket's text is
\* in the plan.
C20_ExpiryBucket ==
    PickedNumeric =>
      \A b \in 1..5 :
        /\ engine = "adv" =>
             (HasNote("Timeframe: " \o BucketText[b] \o ".") <=> b = BucketNo)
        /\ engine = "base" =>
             (HasNote("Pick an expiration that matches how long you expect the move to take: "
                      \o BucketText[b]) <=> b = BucketNo)

C20_Witness ==
    /\ PickedNumeric /\ engine = "adv" /\ daysArg = Num(5)
    /\ plan.notes[4] = "Timeframe: short-term momentum."

\* C21: for every valid decision with a numeric entry e, part_004's
\* pickOptionsContract returns exactly three candidates, in the order
\* strike e, the strike one unit further out of the money (e + 1 for a
\* call, e - 1 for a put), the strike one unit closer to the money, with
\* moneyness ATM, OTM, ITM, and the recommended contract is one of them.
C21_ThreeCandidates ==
    (Picked /\ decision.entry.t = "num") =>
      LET e == ToNum(decision.entry)
          out == IF decision.direction = "call" THEN e + 1000 ELSE e - 1000
          in == IF decision.direction = "call" THEN e - 1000 ELSE e + 1000
      IN  /\ Len(plan.candidates) = 3
          /\ plan.candidates[1].strike = e
          /\ plan.candidates[2].strike = out
          /\ plan.candidates[3].strike = in
          /\ plan.candidates[1].moneyness = "ATM"
          /\ plan.candidates[2].moneyness = "OTM"
          /\ plan.candidates[3].moneyness = "ITM"
          /\ plan.recKind = "cand"
          /\ \E i \in 1..3 : plan.recommended = plan.candidates[i]

\* the first rule of the registry of core.js and of part_005 is the
\* Bullish Flag Golden Play; a decideTrade call on the snapshot has run
RuleRun == pc = "decideTrade" /\ engine \in {"base", "adv"}

\* e is the smallest multiple of 5 that is >= price
MultipleOf5Above(e, price) == e % 5000 = 0 /\ e >= price /\ e - 5000 < price

\* e is the largest multiple of 5 that is <= price
MultipleOf5Below(e, price) == e % 5000 = 0 /\ e <= price /\ e + 5000 > price

\* C22: the Bullish Flag rule proposes a trade if and only if detectBullFlag
\* returns isFlag = true, and whenever it proposes, the proposal is a call
\* with entry the smallest multiple of 5 that is >= price, stop 0.8 x entry
\* and target dayHigh + 0.5 x (dayHigh - dayLow) (levels to two decimals).
C22_FlagRule ==
    RuleRun =>
      LET c == CheckOf(1).res
          price == ToNum(data.price)
          dayHigh == ToNum(data.dayHigh)
          dayLow == ToNum(data.dayLow)
      IN  /\ rules[1].name = "Bullish Flag Golden Play"
          /\ c.fired <=> detectBullFlag(engine, data).isFlag
          /\ c.fired =>
               /\ c.direction = "call"
               /\ MultipleOf5Above(ToNum(c.entry), price)
               /\ 10 * ToNum(c.stop) = 8 * ToNum(c.entry)
               /\ ToNum(c.target) = ToFixed2(2 * dayHigh + (dayHigh - dayLow), 2)

\* C23: with price, maFast and maSlow present the Basic MA Trend rule
\* proposes a call exactly when maFast > maSlow and price > maFast, a put
\* exactly when maFast < maSlow and price < maFast, and nothing otherwise.
\* A call has entry the smallest multiple of 5 >= price, stop 0.8 x entry,
\* target price + range; a put has entry the largest multiple of 5 <= price,
\* stop 1.2 x entry, target price - range; range is dayHigh - dayLow when
\* both are present and 3% of price otherwise (levels to two decimals).
C23_TrendRule ==
    (RuleRun /\ ~CoreInputMissing) =>
      LET c == CheckOf(2).res
          price == ToNum(data.price)
          maFast == ToNum(data.maFast)
          maSlow == ToNum(data.maSlow)
          both == ~Missing(data.dayHigh) /\ ~Missing(data.dayLow)
          up == IF both
                THEN ToFixed2(price + ToNum(data.dayHigh) - ToNum(data.dayLow), 1)
                ELSE ToFixed2(103 * price, 100)
          down == IF both
                  THEN ToFixed2(price - (ToNum(data.dayHigh) - ToNum(data.dayLow)), 1)
                  ELSE ToFixed2(97 * price, 100)
          isCall == maFast > maSlow /\ price > maFast
          isPut == maFast < maSlow /\ price < maFast
      IN  /\ rules[2].name = "Basic MA Trend"
          /\ (c.fired /\ c.direction = "call") <=> isCall
          /\ (c.fired /\ c.direction = "put") <=> isPut
          /\ c.fired => c.direction \in {"call", "put"}
          /\ maFast = maSlow => ~c.fired
          /\ isCall =>
               /\ MultipleOf5Above(ToNum(c.entry), price)
               /\ 10 * ToNum(c.stop) = 8 * ToNum(c.entry)
               /\ ToNum(c.target) = up
          /\ isPut =>
               /\ MultipleOf5Below(ToNum(c.entry), price)
               /\ 10 * ToNum(c.stop) = 12 * ToNum(c.entry)
               /\ ToNum(c.target) = down

\* detectEvenProximity of part_004 has returned for a positive price
EvenDetected ==
    /\ pc = "detectEvenProximity" /\ engine = "adv"
    /\ data.price.t = "num" /\ data.price.v > 0

\* the step the bands give: 0.05 up to 20, 0.5 up to 100, 1 up to 300,
\* 5 up to 1000, 10 above
BandStep(price) ==
    IF price <= 20000 THEN 50
    ELSE IF price <= 100000 THEN 500
    ELSE IF price <= 300000 THEN 1000
    ELSE IF price <= 1000000 THEN 5000
    ELSE 10000

\* C24: for a positive price detectEvenProximity of part_004 takes step 0.05
\* up to 20, 0.5 up to 100, 1 up to 300, 5 up to 1000 and 10 above; nearest
\* is the multiple of the step closest to the price; isNear holds iff
\* |price - nearest| <= 20% of the step; isJustAbove = isNear and price >
\* nearest; isJustBelow = isNear and price < nearest; the two are never
\* both true, and isNear with neither holds only when price = nearest.
C24_EvenProximity ==
    EvenDetected =>
      LET price == data.price.v
          step == BandStep(price)
      IN  /\ proximity.present
          /\ proximity.nearest % step = 0
          /\ 2 * Abs(price - proximity.nearest) <= step
          /\ proximity.isNear <=> 5 * Abs(price - proximity.nearest) <= step
          /\ proximity.isJustAbove <=> (proximity.isNear /\ price > proximity.nearest)
          /\ proximity.isJustBelow <=> (proximity.isNear /\ price < proximity.nearest)
          /\ ~(proximity.isJustAbove /\ proximity.isJustBelow)
          /\ (proximity.isNear /\ ~proximity.isJustAbove /\ ~proximity.isJustBelow) => price = proximity.nearest

\* a price in the second band, off its level and within 20% of the step
C24_Witness ==
    /\ EvenDetected /\ data.price = Num(20050)
    /\ proximity.nearest = 20000 /\ proximity.isNear /\ proximity.isJustAbove /\ ~proximity.isJustBelow

\* the prices the history at hand carries
Priced == IF ctx.present THEN pricesOf(ctx.pts) ELSE <<>>

\* how many prices of the history lie within the variant's tolerance of x
Within(eng, x) ==
    LET tol == IF eng = "sim" THEN simTolerance(Priced) ELSE <<300, 1>>
    IN  Cardinality({i \in DOMAIN Priced : Abs(Priced[i] - x) * tol[2] <= tol[1]})

\* what detectDoubleTopBottom of the variant returned
DoubleOf(eng) == IF eng = "sim" THEN signals.doubleSim ELSE signals.double

\* the largest and the smallest price of a history that carries one
TopPrice == CHOOSE x \in {Priced[i] : i \in DOMAIN Priced} : \A j \in DOMAIN Priced : x >= Priced[j]
BottomPrice == CHOOSE x \in {Priced[i] : i \in DOMAIN Priced} : \A j \in DOMAIN Priced : x <= Priced[j]

\* C25: on a history with at least 5 priced points detectDoubleTopBottom of
\* part_004 and of part_007 flags doubleTop iff at least 2 prices lie
\* within the tolerance of the series maximum, doubleBottom iff at least 2
\* lie within the tolerance of the series minimum; with fewer than 5 points
\* both are false; a maximum (minimum) that occurs once with no other price
\* within the tolerance is not flagged.
C25_DoubleTopBottom ==
    pc = "detectSignals" =>
      \A eng \in {"adv", "sim"} :
        IF Len(Priced) >= 5
        THEN /\ DoubleOf(eng).doubleTop <=> Within(eng, TopPrice) >= 2
             /\ DoubleOf(eng).doubleBottom <=> Within(eng, BottomPrice) >= 2
             /\ Within(eng, TopPrice) <= 1 => ~DoubleOf(eng).doubleTop
             /\ Within(eng, BottomPrice) <= 1 => ~DoubleOf(eng).doubleBottom
        ELSE ~DoubleOf(eng).doubleTop /\ ~DoubleOf(eng).doubleBottom

\* a single top with a price 0.2 under it is flagged, its single bottom is
\* not
C25_Witness ==
    /\ pc = "detectSignals" /\ ctx = NearTopHist
    /\ signals.double.doubleTop /\ ~signals.double.doubleBottom
    /\ signals.doubleSim.doubleTop /\ ~signals.doubleSim.doubleBottom

\* a valid Decision of the flag rule or of the trend rule of core.js and
\* part_005, made from a snapshot with a positive price
ShippedDecision ==
    /\ engine \in {"base", "adv"}
    /\ FiredRule("Bullish Flag Golden Play") \/ FiredRule("Basic MA Trend")
    /\ data.price.t = "num" /\ data.price.v > 0

\* C26: every valid Decision the flag rule and the trend rule make from a
\* snapshot with a positive price has its levels on the right side of the
\* entry: stop < entry < target for a call, target < entry < stop for a put.
C26_LevelsOrdered ==
    ShippedDecision =>
      LET entry == ToNum(decision.entry)
          stop == ToNum(decision.stop)
          target == ToNum(decision.target)
      IN  /\ decision.direction = "call" => (stop < entry /\ entry < target)
          /\ decision.direction = "put" => (target < entry /\ entry < stop)

\* the notes of the stretched branch
StretchedNotes ==
    {"Price is already stretched above the clean entry -> better to wait for a pullback.",
     "Price is already stretched below the clean entry -> better to wait for a bounce."}

\* C27: for every snapshot with a positive price the flag rule and the
\* trend rule of core.js and part_005 produce wait = false: the call entry
\* is the price rounded up to a multiple of 5 and the put entry the price
\* rounded down, so the stretched branch is not taken and its note is
\* never pushed.
C27_NeverWait ==
    ShippedDecision =>
      /\ decision.wait = Bool(FALSE)
      /\ \A i \in DOMAIN decision.notes : decision.notes[i] \notin StretchedNotes
      /\ decision.direction = "call" => ToNum(decision.entry) >= ToNum(data.price)
      /\ decision.direction = "put" => ToNum(decision.entry) <= ToNum(data.price)

\* a put whose price is off the grid of 5, and a decision that does not wait
C27_Witness ==
    /\ ShippedDecision /\ engine = "base" /\ decision.direction = "put"
    /\ data.price = Num(99900) /\ decision.entry = Num(95000)
    /\ decision.wait = Bool(FALSE)

\* the call of ocrCanvasWithRetries is over
OcrDone == ocr.pos \in {"returned", "threw"}

\* the call threw out of its loop (and not for want of Tesseract)
OcrGaveUp == ocr.pos = "threw" /\ ocr.thrown.kind # "Tesseract not available"

\* what holds of a call of ocrCanvasWithRetries at every await
OcrSafe ==
    /\ ocr.started <= ocr.retries + 1
    /\ ocr.inflight <= 1
    /\ ocr.pos \in {"toBlob", "recognize"} =>
         /\ ocr.inflight = 1
         /\ ocr.failed = ocr.started - 1
         /\ ocr.sleeps = ocr.failed
    /\ ocr.pos = "sleep" => (ocr.failed = ocr.started /\ ocr.failed <= ocr.retries)
    /\ ocr.pos = "returned" =>
         /\ ocr.result = ocr.started
         /\ ocr.failed = ocr.started - 1
         /\ ocr.sleeps = ocr.failed
         /\ ocr.inflight = 0
    /\ OcrGaveUp =>
         /\ ocr.failed = ocr.retries + 1
         /\ ocr.started = ocr.retries + 1
         /\ ocr.sleeps = ocr.retries
         /\ ocr.thrown = ocr.lastErr
         /\ ocr.thrown.attempt = ocr.retries + 1
         /\ ocr.result = 0

\* C28: ocrCanvasWithRetries(canvas, retries, delay) makes at most
\* retries + 1 recognition attempts, one after another; it returns the
\* result of the first attempt that succeeds and makes no attempt after
\* it; after every failed attempt but the last it sleeps before the next
\* one; when all retries + 1 attempts fail it throws the error of the last
\* one; and the call always ends.
C28_Retries ==
    /\ []OcrSafe
    /\ [][OcrDone => UNCHANGED ocr]_vars
    /\ <>OcrDone

\* the last allowed attempt has failed after two sleeps and its error is
\* thrown
C28_Witness ==
    /\ OcrGaveUp /\ ocr.retries = 2 /\ ocr.started = 3 /\ ocr.sleeps = 2
    /\ ocr.thrown = Err(3, "recognize")

\* the decision decideTrade makes of a snapshot on the page
PageDecision(parsed) == decideTrade(engine, rules, parsed, NoHist).decision

\* C29: under any interleaving of overlapping processFile invocations, with
\* storage writes succeeding, at every point between event-loop tasks the
\* persisted pair is consistent: gf_decision holds the Decision decideTrade
\* computed from the snapshot under gf_data in the same run, and the two
\* keys never come from different runs.
C29_PairConsistent ==
    /\ page.store.dataBy = page.store.decisionBy
    /\ page.store.written =>
         /\ page.store.decision = PageDecision(page.store.data)
         /\ page.store.decision.valid <=> page.store.data = BothFireSnap

\* the second run has saved its pair while the first, which read another
\* chart, is still waiting for its render
C29_Witness ==
    /\ Len(page.runs) = 2
    /\ page.runs[1].pos = "renderOcr" /\ page.runs[1].parsed = BothFireSnap
    /\ page.runs[2].pos = "done" /\ page.runs[2].parsed = NoneFireSnap
    /\ page.store.dataBy = <<2, "processFile">>
    /\ page.store.data = NoneFireSnap /\ ~page.store.decision.valid

\* C30: called on a valid decision with daysToExpiry = null, as the
\* automatic options page calls it, pickOptionsContract of part_004 returns
\* what it returns for daysToExpiry = 0: the timeframe is the scalp bucket
\* and the recommended contract is the aggressive out-of-the-money
\* candidate (index 1), so recommended is not null.
C30_NullExpiry ==
    (Picked /\ daysArg = Null) =>
      /\ \A u \in Tickers : plan = pickOptionsContract("adv", decision, Num(0), u)
      /\ HasNote("Timeframe: 0DTE-2DTE scalp.")
      /\ plan.recKind = "cand"
      /\ plan.recommended = plan.candidates[2]
      /\ plan.recommended.moneyness = "OTM"
      /\ plan.recommended.styleHint = "cheaper, higher leverage, more aggressive"

\* a put picked with no expiry: the recommended strike is one under the
\* entry
C30_Witness ==
    /\ Picked /\ daysArg = Null /\ decision.direction = "put"
    /\ decision.entry = Num(100000)
    /\ plan.recommended.strike = 99000 /\ plan.recommended.moneyness = "OTM"

====
